---- MODULE Spec2Model ----
(***************************************************************************)
(* Model of the talent search of NikolayS/itpeople: the batch search route *)
(* (src/src/app/api/search/route.ts), the streaming search route           *)
(* (src/unnamed/part_004), and the pure functions they call: the GitHub    *)
(* enrichment and the spoken-language detector (src/src/lib/github.ts) and *)
(* the scoring function (src/src/lib/supabase.ts, lines 41-161).           *)
(*                                                                         *)
(* Representation.                                                         *)
(*  - JavaScript null is the string Null; a missing number is 0, as the    *)
(*    code's own truthiness tests treat it.                                *)
(*  - Text is a TLA+ string over ASCII. The characters "#", "$", "%", "&"  *)
(*    stand for one code point of the Cyrillic block, of the CJK unified   *)
(*    ideographs, of Hiragana/Katakana and of Hangul; "~" stands for a     *)
(*    non-ASCII Latin letter (n-tilde, c-cedilla, ...).                    *)
(*  - A timestamp is its age in days at the time of the search (NoDate for *)
(*    null), so Date.now() - t is the age itself.                          *)
(*  - A score and a sub-score are integers in hundredths of a point, the   *)
(*    resolution Math.round(x * 100) / 100 leaves.                         *)
(***************************************************************************)
EXTENDS Integers, Sequences, FiniteSets, TLC

Null == "<null>"

NoDate == -1

(***************************************************************************)
(* Strings                                                                 *)
(***************************************************************************)
UpperLetters == "ABCDEFGHIJKLMNOPQRSTUVWXYZ"

LowerLetters == "abcdefghijklmnopqrstuvwxyz"

Digits == "0123456789"

CharAt(s, i) == SubSeq(s, i, i)

CharsOf(s) == {CharAt(s, i) : i \in 1..Len(s)}

\* \w of a JavaScript regular expression without the u flag
WordChars == CharsOf(UpperLetters) \cup CharsOf(LowerLetters) \cup CharsOf(Digits) \cup {"_"}

\* the upper-case letters and their lower-case forms
RECURSIVE LowerMapUpTo(_)
LowerMapUpTo(n) ==
    IF n = 0 THEN [c \in {} |-> c]
    ELSE (CharAt(UpperLetters, n) :> CharAt(LowerLetters, n)) @@ LowerMapUpTo(n - 1)

LowerMap == LowerMapUpTo(Len(UpperLetters))

UpperChars == DOMAIN LowerMap

LowerChar(c) == IF c \in UpperChars THEN LowerMap[c] ELSE c

RECURSIVE toLowerCase(_)
toLowerCase(s) ==
    IF Len(s) = 0 THEN "" ELSE LowerChar(CharAt(s, 1)) \o toLowerCase(SubSeq(s, 2, Len(s)))

\* s.substring(i) matches p at position i
MatchAt(s, i, p) == i >= 1 /\ i + Len(p) - 1 <= Len(s) /\ SubSeq(s, i, i + Len(p) - 1) = p

\* String.prototype.includes
Includes(s, p) == \E i \in 1..(Len(s) + 1) : MatchAt(s, i, p)

EndsWith(s, p) == MatchAt(s, Len(s) - Len(p) + 1, p)

\* /p/i.test(s) for a lower-case literal p
TestI(s, p) == Includes(toLowerCase(s), p)

\* /\bp\b/i.test(s) for a lower-case literal p that starts and ends with a word character
TestWordI(s, p) ==
    LET t == toLowerCase(s)
    IN \E i \in 1..Len(t) :
          /\ MatchAt(t, i, p)
          /\ (i = 1 \/ CharAt(t, i - 1) \notin WordChars)
          /\ (i + Len(p) > Len(t) \/ CharAt(t, i + Len(p)) \notin WordChars)

HasChar(s, c) == c \in CharsOf(s)

\* name.split(/\s+/).filter(p => p.length > 0); the only white space of the model is " "
RECURSIVE SplitWords(_, _, _)
SplitWords(s, i, cur) ==
    IF i > Len(s) THEN (IF cur = "" THEN <<>> ELSE <<cur>>)
    ELSE IF CharAt(s, i) = " "
         THEN (IF cur = "" THEN <<>> ELSE <<cur>>) \o SplitWords(s, i + 1, "")
         ELSE SplitWords(s, i + 1, cur \o CharAt(s, i))

\* x || ''
Text(x) == IF x = Null THEN "" ELSE x

(***************************************************************************)
(* detectSpokenLanguage (src/src/lib/github.ts:126-240)                    *)
(***************************************************************************)
\* a code point in U+0400..U+04FF
HasCyrillic(s) == HasChar(s, "#")

\* a code point in U+4E00..U+9FFF
HasCJK(s) == HasChar(s, "$")

\* a code point in U+3040..U+309F or U+30A0..U+30FF
HasKana(s) == HasChar(s, "%")

\* a code point in U+AC00..U+D7AF
HasHangul(s) == HasChar(s, "&")

\* Object.entries(bioPatterns) keeps the insertion order of the keys
BioLanguages ==
    <<"Russian", "German", "Spanish", "French", "Portuguese", "Chinese", "Japanese", "Korean">>

\* The patterns written in Cyrillic, CJK and Hangul are left out: a bio that
\* holds such a character has already returned at lines 135-148.
bioPatterns(language) ==
    CASE language = "Russian" ->
            {"from russia", "russian", "born in russia", "from moscow", "from ukraine",
             "from belarus", "ukrainian", "belarusian"}
      [] language = "German" -> {"deutsch", "german native", "native german"}
      [] language = "Spanish" ->
            {"espa~ol", "spanish native", "hablo espa~ol", "native spanish"}
      [] language = "French" -> {"fran~ais", "french native", "native french"}
      [] language = "Portuguese" ->
            {"portugu~s", "portuguese native", "native portuguese"}
      [] language = "Chinese" -> {"chinese native"}
      [] language = "Japanese" -> {"japanese native"}
      [] language = "Korean" -> {"korean native"}

BioPatternMatch(bioText, language) == \E p \in bioPatterns(language) : TestWordI(bioText, p)

westernFirstNames ==
    {"martin", "katrina", "katrin", "justin", "dustin", "kristin", "kristina",
     "augustin", "constantine", "colin", "kevin", "gavin", "marvin", "alvin",
     "calvin", "melvin", "irvin", "darwin", "edwin", "kelvin", "corwin",
     "robin", "franklin", "merlin", "berlin", "quinn", "finn", "lin",
     "marina", "nina", "tina", "christina", "sabrina", "carolina", "valentina",
     "regina", "georgina", "wilhelmina", "thomasina", "angelina", "seraphina",
     "eva", "ava", "nova", "silva", "olivia", "geneva"}

\* the alternatives of strongRussianPattern, each anchored at the end
strongRussianSuffixes ==
    {"ov", "ev", "ova", "eva", "sky", "skiy", "ski", "skaya", "skaia", "enko",
     "uk", "yuk", "chuk", "ovich", "evich", "ich", "ych"}

excludeSurnames == {"laszkov", "nemkov"}

singleNameSuffixes == {"enko", "ovich", "evich", "sky", "skiy", "ski"}

SurnameMinLength == 4

SingleNameMinLength == 5

\* a surname test without the length guard, to compare SurnameIsRussian with
SurnameIsRussianAnyLength(nameParts) ==
    /\ Len(nameParts) >= 2
    /\ LET surname == toLowerCase(nameParts[Len(nameParts)])
       IN /\ \E suf \in strongRussianSuffixes : EndsWith(surname, suf)
          /\ surname \notin excludeSurnames

\* lines 193-211: the last of two or more name parts
SurnameIsRussian(nameParts) ==
    /\ Len(nameParts) >= 2
    /\ LET surname == toLowerCase(nameParts[Len(nameParts)])
       IN /\ \E suf \in strongRussianSuffixes : EndsWith(surname, suf)
          /\ Len(surname) > SurnameMinLength
          /\ surname \notin excludeSurnames

\* lines 214-222: a single-word name
SingleNameIsRussian(nameParts) ==
    /\ Len(nameParts) = 1
    /\ LET name == toLowerCase(nameParts[1])
       IN /\ name \notin westernFirstNames
          /\ \E suf \in singleNameSuffixes : EndsWith(name, suf)
          /\ Len(name) > SingleNameMinLength

\* russianLocationPatterns; /\bst\.? petersburg\b/ is its two literal readings
russianLocationPatterns ==
    {"russia", "moscow", "saint petersburg", "st. petersburg", "st petersburg",
     "novosibirsk", "yekaterinburg", "kazan", "ukraine", "kyiv", "kiev", "kharkiv",
     "odessa", "belarus", "minsk"}

detectSpokenLanguage(bio, location, name) ==
    LET bioText == Text(bio)
        locationText == Text(location)
        nameText == Text(name)
        nameParts == SplitWords(nameText, 1, "")
        matching == {i \in 1..Len(BioLanguages) : BioPatternMatch(bioText, BioLanguages[i])}
    IN IF HasCyrillic(bioText) \/ HasCyrillic(nameText) THEN "Russian"
       ELSE IF HasCJK(bioText) THEN "Chinese"
       ELSE IF HasKana(bioText) THEN "Japanese"
       ELSE IF HasHangul(bioText) THEN "Korean"
       ELSE IF matching # {}
            THEN BioLanguages[CHOOSE i \in matching : \A j \in matching : i <= j]
       ELSE IF nameText # "" /\ SurnameIsRussian(nameParts) THEN "Russian"
       ELSE IF nameText # "" /\ SingleNameIsRussian(nameParts) THEN "Russian"
       ELSE IF \E p \in russianLocationPatterns :
                  TestWordI(locationText, p) \/ TestWordI(bioText, p)
            THEN "Russian"
       ELSE Null

(***************************************************************************)
(* hasLanguageHint of the streaming route (src/unnamed/part_004:291-307)   *)
(***************************************************************************)
\* /st\.?\s*petersburg/i
RECURSIVE SkipSpaces(_, _)
SkipSpaces(s, i) == IF i <= Len(s) /\ CharAt(s, i) = " " THEN SkipSpaces(s, i + 1) ELSE i

StPetersburgHint(s) ==
    LET t == toLowerCase(s)
    IN \E i \in 1..Len(t) :
          /\ MatchAt(t, i, "st")
          /\ \/ MatchAt(t, SkipSpaces(t, i + 2), "petersburg")
             \/ MatchAt(t, i + 2, ".") /\ MatchAt(t, SkipSpaces(t, i + 3), "petersburg")

\* the alternatives of locationHints[targetLang] that are plain literals
locationHintWords(targetLang) ==
    CASE targetLang = "Russian" ->
            {"russia", "ukraine", "belarus", "moscow", "kyiv", "kiev", "minsk", "novosibirsk"}
      [] targetLang = "German" ->
            {"germany", "austria", "switzerland", "berlin", "munich", "vienna", "zurich"}
      [] targetLang = "Spanish" ->
            {"spain", "mexico", "argentina", "colombia", "madrid", "barcelona", "buenos aires"}
      [] targetLang = "French" -> {"france", "paris", "lyon", "montreal", "quebec", "brussels"}
      [] targetLang = "Portuguese" -> {"brazil", "portugal", "lisbon", "s~o paulo", "rio"}
      [] targetLang = "Chinese" ->
            {"china", "beijing", "shanghai", "taiwan", "hong kong", "shenzhen"}
      [] targetLang = "Japanese" -> {"japan", "tokyo", "osaka", "kyoto"}
      [] OTHER -> {}

HintPatternTest(targetLang, s) ==
    \/ \E w \in locationHintWords(targetLang) : TestI(s, w)
    \/ targetLang = "Russian" /\ StPetersburgHint(s)

hasLanguageHint(targetLang, location, bio) ==
    HintPatternTest(targetLang, Text(location)) \/ HintPatternTest(targetLang, Text(bio))

(***************************************************************************)
(* Scoring (src/src/lib/supabase.ts:50-143), in hundredths of a point      *)
(***************************************************************************)
Min(a, b) == IF a < b THEN a ELSE b

MonthDays == 30

\* an attribute the Partial<Candidate> does not have
Absent == NoDate

\* x || 0
OrZero(x) == IF x = Absent THEN 0 ELSE x

\* a volume score whose commit part has no cap, to compare scoreContributionVolume with
scoreContributionVolumeCommitsUncapped(candidate) ==
    100 * Min(OrZero(candidate.public_repos), 50) + OrZero(candidate.total_commits)

\* a volume score whose repository part has no cap, to compare
\* scoreContributionVolume with
scoreContributionVolumeReposUncapped(candidate) ==
    100 * OrZero(candidate.public_repos) + Min(OrZero(candidate.total_commits), 5000)

\* (repoScore + commitScore) / 100 * 100, commitScore = commits / 100 capped at 50
scoreContributionVolume(candidate) ==
    LET repos == OrZero(candidate.public_repos)
        commits == OrZero(candidate.total_commits)
        repoScore == 100 * Min(repos, 50)
        commitScore == IF commits > 0 THEN Min(commits, 5000) ELSE 0
    IN repoScore + commitScore

\* a quality score with the tiers of 50 and of 100 stars exchanged, to compare
\* scoreProjectQuality with
scoreProjectQualityTiersExchanged(candidate) ==
    LET stars == OrZero(candidate.total_stars)
    IN 100 * (IF stars = 0 THEN 0
              ELSE IF stars < 10 THEN 20
              ELSE IF stars < 50 THEN 40
              ELSE IF stars < 100 THEN 80
              ELSE IF stars < 500 THEN 60
              ELSE 100)

scoreProjectQuality(candidate) ==
    LET stars == OrZero(candidate.total_stars)
    IN 100 * (IF stars = 0 THEN 0
              ELSE IF stars < 10 THEN 20
              ELSE IF stars < 50 THEN 40
              ELSE IF stars < 100 THEN 60
              ELSE IF stars < 500 THEN 80
              ELSE 100)

\* monthsAgo < n  iff  age in days < 30 * n
scoreRecency(candidate) ==
    LET lastActivity == candidate.last_activity_at
    IN 100 * (IF lastActivity = NoDate THEN 0
              ELSE IF lastActivity < 1 * MonthDays THEN 100
              ELSE IF lastActivity < 3 * MonthDays THEN 80
              ELSE IF lastActivity < 6 * MonthDays THEN 60
              ELSE IF lastActivity < 12 * MonthDays THEN 40
              ELSE 20)

\* a reputation score that is the follower tier alone, to compare scoreReputation with
scoreReputationFollowersOnly(candidate) ==
    LET followers == OrZero(candidate.followers)
    IN 100 * (IF followers = 0 THEN 0
              ELSE IF followers < 10 THEN 10
              ELSE IF followers < 50 THEN 25
              ELSE IF followers < 100 THEN 40
              ELSE IF followers < 500 THEN 60
              ELSE IF followers < 1000 THEN 80
              ELSE 100)

scoreReputation(candidate) ==
    LET followers == OrZero(candidate.followers)
        soRep == OrZero(candidate.stackoverflow_reputation)
        followerScore ==
            IF followers > 0
            THEN (IF followers < 10 THEN 10
                  ELSE IF followers < 50 THEN 25
                  ELSE IF followers < 100 THEN 40
                  ELSE IF followers < 500 THEN 60
                  ELSE IF followers < 1000 THEN 80
                  ELSE 100)
            ELSE 0
        soScore ==
            IF soRep > 0
            THEN (IF soRep < 100 THEN 10
                  ELSE IF soRep < 500 THEN 25
                  ELSE IF soRep < 1000 THEN 40
                  ELSE IF soRep < 5000 THEN 60
                  ELSE IF soRep < 10000 THEN 80
                  ELSE 100)
            ELSE 0
    IN IF soRep > 0 THEN 60 * followerScore + 40 * soScore ELSE 100 * followerScore

calculateScoreComponents(candidate) ==
    [contributionVolume |-> scoreContributionVolume(candidate),
     projectQuality |-> scoreProjectQuality(candidate),
     recency |-> scoreRecency(candidate),
     reputation |-> scoreReputation(candidate)]

\* a score that truncates instead of rounding, to compare calculateScore with
calculateScoreTruncated(candidate) ==
    (scoreContributionVolume(candidate) + scoreProjectQuality(candidate)
       + scoreRecency(candidate) + scoreReputation(candidate)) \div 4

\* Math.round(weightedScore * 100) / 100: the quarter of the sum, halves rounded up
calculateScore(candidate) ==
    LET components == calculateScoreComponents(candidate)
        sum == components.contributionVolume + components.projectQuality
                 + components.recency + components.reputation
    IN (sum + 2) \div 4

(***************************************************************************)
(* enrichUserData (src/src/lib/github.ts:84-124)                           *)
(***************************************************************************)
\* the keys a repository adds to languageCounts, in the order it adds them
RepoSkillMentions(repo) ==
    (IF repo.language # Null THEN <<repo.language>> ELSE <<>>) \o repo.topics

SeqToSet(q) == {q[i] : i \in 1..Len(q)}

\* the keys of an object, in insertion order
RECURSIVE FirstOccurrences(_)
FirstOccurrences(q) ==
    IF q = <<>> THEN <<>>
    ELSE LET front == FirstOccurrences(SubSeq(q, 1, Len(q) - 1))
             x == q[Len(q)]
         IN IF x \in SeqToSet(front) THEN front ELSE Append(front, x)

Occurrences(q, x) == Cardinality({i \in 1..Len(q) : q[i] = x})

\* Array.prototype.sort with the comparator (a, b) => key(b) - key(a): descending,
\* and stable, so x goes before the first entry of a strictly smaller key.
\* q is the sequence sorted so far, as pairs <<entry, key>>.
RECURSIVE InsertDescending(_, _)
InsertDescending(q, x) ==
    IF q = <<>> THEN <<x>>
    ELSE IF Head(q)[2] < x[2] THEN <<x>> \o q
    ELSE <<Head(q)>> \o InsertDescending(Tail(q), x)

RECURSIVE SortPairsDescending(_)
SortPairsDescending(q) ==
    IF q = <<>> THEN <<>>
    ELSE InsertDescending(SortPairsDescending(SubSeq(q, 1, Len(q) - 1)), q[Len(q)])

\* entries sorted by keys[i], the key of entries[i]
RECURSIVE Zip(_, _)
Zip(entries, keys) ==
    IF entries = <<>> THEN <<>>
    ELSE <<(<<Head(entries), Head(keys)>>)>> \o Zip(Tail(entries), Tail(keys))

RECURSIVE Firsts(_)
Firsts(pairs) == IF pairs = <<>> THEN <<>> ELSE <<Head(pairs)[1]>> \o Firsts(Tail(pairs))

SortDescending(entries, keys) == Firsts(SortPairsDescending(Zip(entries, keys)))

Take(q, n) == SubSeq(q, 1, Min(n, Len(q)))

TopSkills == 10

\* lines 97-113
techSkillsOf(repos) ==
    LET RECURSIVE MentionsOf(_)
        MentionsOf(q) ==
            IF q = <<>> THEN <<>> ELSE RepoSkillMentions(Head(q)) \o MentionsOf(Tail(q))
        mentions == MentionsOf(repos)
        skills == FirstOccurrences(mentions)
        RECURSIVE CountsOf(_)
        CountsOf(q) ==
            IF q = <<>> THEN <<>>
            ELSE <<Occurrences(mentions, Head(q))>> \o CountsOf(Tail(q))
        counts == CountsOf(skills)
    IN Take(SortDescending(skills, counts), TopSkills)

RECURSIVE SumStars(_)
SumStars(repos) ==
    IF repos = <<>> THEN 0 ELSE Head(repos).stargazers_count + SumStars(Tail(repos))

\* the result of enrichUserData for the upstream answers (user, repos)
EnrichedUserData(user, repos) ==
    [user |-> user, repos |-> repos, techSkills |-> techSkillsOf(repos),
     totalStars |-> SumStars(repos)]

(***************************************************************************)
(* The upstream world: what GitHub, Stack Overflow and the LinkedIn agent  *)
(* answer. Logins are numbers; the accounts 1..4 are the profiles below,    *)
(* every later login is a plain account.                                   *)
(***************************************************************************)
\* the GitHub accounts a search of the model can return
NumProfiles == 4

\* the longest allUsers and the longest linkedInResults.profiles, but for the
\* plain request (see NextLogins)
MaxUsers == 2

DefaultMaxResults == 10

Repo(language, topics, stars, pushed) ==
    [language |-> language, topics |-> topics, stargazers_count |-> stars, pushed_at |-> pushed]

GitHubUser(login) ==
    CASE login = 1 ->
            [login |-> 1, name |-> "Hans Meyer", bio |-> "Entwickler. Deutsch, English",
             location |-> "Berlin, Germany", avatar_url |-> "avatars/1",
             public_repos |-> 12, followers |-> 120, updated_at |-> 5]
      [] login = 2 ->
            [login |-> 2, name |-> "Lena Fischer", bio |-> Null,
             location |-> "Berlin", avatar_url |-> "avatars/2",
             public_repos |-> 3, followers |-> 5, updated_at |-> 50]
      [] login = 3 ->
            [login |-> 3, name |-> "Ivan Petrov", bio |-> Null,
             location |-> "Austin, TX", avatar_url |-> "avatars/3",
             public_repos |-> 0, followers |-> 10, updated_at |-> 20]
      [] login = 4 ->
            [login |-> 4, name |-> "Sam Doe", bio |-> "Open source developer",
             location |-> Null, avatar_url |-> "avatars/4",
             public_repos |-> 1, followers |-> 0, updated_at |-> 200]
      [] OTHER ->
            [login |-> login, name |-> Null, bio |-> Null,
             location |-> Null, avatar_url |-> "avatars/n",
             public_repos |-> 1, followers |-> 0, updated_at |-> 2]

\* GET /users/<login>/repos?sort=updated: most recently updated first, which
\* need not be the most recently pushed
GitHubRepos(login) ==
    CASE login = 1 -> <<Repo("Python", <<"go">>, 30, 40), Repo("Go", <<>>, 5, 10)>>
      [] login = 2 -> <<Repo("python", <<>>, 2, 100)>>
      [] login = 3 -> <<>>
      [] login = 4 -> <<Repo("Go", <<"python", "cli">>, 600, 3), Repo(Null, <<"cli">>, 0, 400)>>
      [] OTHER -> <<Repo("Go", <<>>, 1, 2)>>

NumLogins == NumProfiles + DefaultMaxResults + 1

\* enrichUserData and detectSpokenLanguage are functions of the upstream answers:
\* the tables hold their results for the logins 1..NumLogins
RECURSIVE EnrichedUpTo(_)
EnrichedUpTo(n) ==
    IF n = 0 THEN <<>>
    ELSE Append(EnrichedUpTo(n - 1), EnrichedUserData(GitHubUser(n), GitHubRepos(n)))

Enriched == EnrichedUpTo(NumLogins)

RECURSIVE DetectedUpTo(_)
DetectedUpTo(n) ==
    IF n = 0 THEN <<>>
    ELSE Append(DetectedUpTo(n - 1),
                detectSpokenLanguage(Enriched[n].user.bio, Enriched[n].user.location,
                                     Enriched[n].user.name))

DetectedLanguage == DetectedUpTo(NumLogins)

\* the messages githubFetch throws (github.ts:21); NoError: the call succeeded
NoError == ""

EnrichErrors ==
    {"GitHub API error: 403 Forbidden",
     "GitHub API error: 429 rate limit exceeded",
     "GitHub API error: 404 Not Found"}

\* what the Stack Overflow lookup comes to: a matching user, no match, or a
\* failed request
SOOutcomes == {"found", "notfound", "error"}

NoSOData == [found |-> FALSE, stackoverflow_id |-> 0, stackoverflow_reputation |-> 0,
             soTechSkills |-> <<>>]

\* enrichWithSOData (src/unnamed/part_002:226-254): null unless a user was found
enrichWithSOData(outcome) ==
    IF outcome = "found"
    THEN [found |-> TRUE, stackoverflow_id |-> 77, stackoverflow_reputation |-> 1500,
          soTechSkills |-> <<"python", "sql">>]
    ELSE NoSOData

\* what the LinkedIn agent finds for a person
LinkedInProfile(which) ==
    CASE which = "german" ->
            [name |-> "Hans Meyer", location |-> "Berlin", profileUrl |-> "linkedin.com/in/hans",
             languages |-> <<"English", "German (Native)">>, skills |-> <<"Rust", "PYTHON">>]
      [] which = "english" ->
            [name |-> "Sam Doe", location |-> "Austin", profileUrl |-> "linkedin.com/in/sam",
             languages |-> <<"English">>, skills |-> <<"Golang">>]

LIOutcomes == {"german", "english", "notfound", "error"}

NoLinkedInData == [found |-> FALSE, linkedin_url |-> Null, linkedinLanguages |-> <<>>,
                   linkedinSkills |-> <<>>]

\* enrichWithLinkedIn (src/src/lib/linkedin.ts:364-389): null without a name, when
\* no profile is found and when the lookup throws
enrichWithLinkedIn(name, outcome) ==
    IF name = Null \/ name = "" THEN NoLinkedInData
    ELSE IF outcome \in {"german", "english"}
    THEN [found |-> TRUE, linkedin_url |-> LinkedInProfile(outcome).profileUrl,
          linkedinLanguages |-> LinkedInProfile(outcome).languages,
          linkedinSkills |-> LinkedInProfile(outcome).skills]
    ELSE NoLinkedInData

(***************************************************************************)
(* The filter cascade, as both routes write it                             *)
(* (src/src/app/api/search/route.ts:91-226, src/unnamed/part_004:309-445)  *)
(***************************************************************************)
\* a cap that grows with the request's, to compare MaxResultsOf with
MaxResultsOfLoose(f) == f.maxResults + DefaultMaxResults

\* a cap that lets one more identity through, to compare MaxResultsOf with
MaxResultsOfOneMore(f) == (IF f.maxResults = 0 THEN DefaultMaxResults ELSE f.maxResults) + 1

\* filters.maxResults || 10
MaxResultsOf(f) == IF f.maxResults = 0 THEN DefaultMaxResults ELSE f.maxResults

\* errorMessage.includes('403') || errorMessage.includes('rate limit')
IsRateLimitError(errorMessage) ==
    Includes(errorMessage, "403") \/ Includes(errorMessage, "rate limit")

\* route.ts:92
BatchDeferLanguageCheck(f, login) ==
    f.strictLanguageFilter /\ f.enableLinkedIn /\ DetectedLanguage[login] = Null

\* part_004:310-314
StreamDeferLanguageCheck(f, login) ==
    /\ f.strictLanguageFilter
    /\ f.enableLinkedIn
    /\ DetectedLanguage[login] = Null
    /\ f.spokenLanguage # ""
    /\ hasLanguageHint(f.spokenLanguage, Enriched[login].user.location,
                       Enriched[login].user.bio)

\* a language filter that is strict whatever the flag, to compare
\* LanguageFilterPasses with
LanguageFilterAlwaysStrict(f, detectedLanguage, deferLanguageCheck) ==
    IF f.spokenLanguage # "" /\ ~deferLanguageCheck
    THEN detectedLanguage = f.spokenLanguage
    ELSE TRUE

\* route.ts:95-110, part_004:316-326: TRUE when the candidate is not skipped
LanguageFilterPasses(f, detectedLanguage, deferLanguageCheck) ==
    IF f.spokenLanguage # "" /\ ~deferLanguageCheck
    THEN IF f.strictLanguageFilter
         THEN detectedLanguage = f.spokenLanguage
         ELSE ~(detectedLanguage # Null /\ detectedLanguage # f.spokenLanguage)
    ELSE TRUE

\* route.ts:113-118, part_004:328-333
hasAllSkills(f, techSkills) ==
    \A i \in 1..Len(f.techSkills) :
        \E j \in 1..Len(techSkills) :
            toLowerCase(techSkills[j]) = toLowerCase(f.techSkills[i])

SkillFilterPasses(f, enriched) ==
    IF Len(f.techSkills) > 1 THEN hasAllSkills(f, enriched.techSkills) ELSE TRUE

\* route.ts:120-122, part_004:111-113 and 335-337
lastActivityOf(enriched) ==
    IF Len(enriched.repos) > 0 THEN enriched.repos[1].pushed_at ELSE enriched.user.updated_at

\* route.ts:125-129, part_004:339-343: monthsAgo > n iff the age in days > 30 * n
RecencyFilterPasses(f, lastActivity) ==
    IF f.recentActivityMonths # 0
    THEN ~(lastActivity > MonthDays * f.recentActivityMonths)
    ELSE TRUE

\* route.ts:132-134, part_004:345
StarFilterPasses(f, enriched) ==
    ~(f.minStars # 0 /\ enriched.totalStars < f.minStars)

\* the candidate reaches the optional enrichment (route.ts:136, part_004:347)
PassesFilters(f, login, deferLanguageCheck) ==
    /\ LanguageFilterPasses(f, DetectedLanguage[login], deferLanguageCheck)
    /\ SkillFilterPasses(f, Enriched[login])
    /\ RecencyFilterPasses(f, lastActivityOf(Enriched[login]))
    /\ StarFilterPasses(f, Enriched[login])

\* route.ts:167-169, part_004:390-392
linkedInHasLanguage(f, linkedInData) ==
    \E i \in 1..Len(linkedInData.linkedinLanguages) :
        Includes(toLowerCase(linkedInData.linkedinLanguages[i]), toLowerCase(f.spokenLanguage))

\* a LinkedIn language check applied to every candidate of a language search,
\* to compare DeferredCheckPasses with
DeferredCheckAlways(f, deferLanguageCheck, linkedInData) ==
    f.spokenLanguage # "" => linkedInHasLanguage(f, linkedInData)

\* route.ts:166-175, part_004:389-394: TRUE when the candidate is not skipped
DeferredCheckPasses(f, deferLanguageCheck, linkedInData) ==
    IF deferLanguageCheck /\ f.spokenLanguage # ""
    THEN linkedInHasLanguage(f, linkedInData)
    ELSE TRUE

\* the loop that pushes the skills not yet present, compared in lower case
RECURSIVE MergeSkills(_, _)
MergeSkills(allTechSkills, more) ==
    IF more = <<>> THEN allTechSkills
    ELSE LET skill == Head(more)
             present == \E i \in 1..Len(allTechSkills) :
                            toLowerCase(allTechSkills[i]) = toLowerCase(skill)
         IN MergeSkills(IF present THEN allTechSkills ELSE Append(allTechSkills, skill),
                        Tail(more))

MaxTechSkills == 15

\* route.ts:178-192 and 209, part_004:397-411 and 428
mergeTechSkills(enriched, soData, linkedInData) ==
    Take(MergeSkills(MergeSkills(enriched.techSkills, soData.soTechSkills),
                     linkedInData.linkedinSkills),
         MaxTechSkills)

\* a candidate whose score is off by one point, to compare WithScore with
WithScoreOff(candidateData, score) == candidateData @@ [score |-> score + 100]

\* the fields calculateScore and the claims read; company, email, blog,
\* twitter_username, following, id and the created/updated stamps are copied
\* through by the code and are left out
WithScore(candidateData, score) ==
    [github_username |-> candidateData.github_username,
     name |-> candidateData.name,
     bio |-> candidateData.bio,
     location |-> candidateData.location,
     avatar_url |-> candidateData.avatar_url,
     public_repos |-> candidateData.public_repos,
     followers |-> candidateData.followers,
     total_stars |-> candidateData.total_stars,
     tech_skills |-> candidateData.tech_skills,
     detected_spoken_language |-> candidateData.detected_spoken_language,
     last_activity_at |-> candidateData.last_activity_at,
     total_commits |-> 0,
     stackoverflow_id |-> candidateData.stackoverflow_id,
     stackoverflow_reputation |-> candidateData.stackoverflow_reputation,
     linkedin_url |-> candidateData.linkedin_url,
     score |-> score]

\* route.ts:194-226, part_004:413-445. calculateScore reads candidateData, which has
\* no total_commits: candidate.total_commits || 0 is 0
EnrichedCandidate(enriched, detectedLanguage, soData, linkedInData) ==
    LET candidateData ==
            [github_username |-> enriched.user.login,
             name |-> enriched.user.name,
             bio |-> enriched.user.bio,
             location |-> enriched.user.location,
             avatar_url |-> enriched.user.avatar_url,
             public_repos |-> enriched.user.public_repos,
             followers |-> enriched.user.followers,
             total_stars |-> enriched.totalStars,
             tech_skills |-> mergeTechSkills(enriched, soData, linkedInData),
             detected_spoken_language |-> detectedLanguage,
             last_activity_at |-> lastActivityOf(enriched),
             total_commits |-> 0,
             stackoverflow_id |-> soData.stackoverflow_id,
             stackoverflow_reputation |-> soData.stackoverflow_reputation,
             linkedin_url |-> linkedInData.linkedin_url]
    IN WithScore(candidateData, calculateScore(candidateData))

PlaceholderScore == 1000

\* route.ts:233-259: the search hit's login and avatar, everything else empty
PlaceholderCandidate(login) ==
    [github_username |-> login,
     name |-> Null,
     bio |-> Null,
     location |-> Null,
     avatar_url |-> GitHubUser(login).avatar_url,
     public_repos |-> 0,
     followers |-> 0,
     total_stars |-> 0,
     tech_skills |-> <<>>,
     detected_spoken_language |-> Null,
     last_activity_at |-> NoDate,
     total_commits |-> 0,
     stackoverflow_id |-> 0,
     stackoverflow_reputation |-> 0,
     linkedin_url |-> Null,
     score |-> PlaceholderScore]

\* the list left as the loop built it, to compare SortByScore with
Unsorted(cands) == cands

\* candidates.sort((a, b) => b.score - a.score)
RECURSIVE ScoresOf(_)
ScoresOf(cands) == IF cands = <<>> THEN <<>> ELSE <<Head(cands).score>> \o ScoresOf(Tail(cands))

SortByScore(cands) == SortDescending(cands, ScoresOf(cands))

(***************************************************************************)
(* One pass of the enrichment loops                                        *)
(***************************************************************************)
Skipped(exit) == [exit |-> exit, pushed |-> <<>>]

\* route.ts:87-226 and part_004:287-445 after a successful enrichUserData; so and li
\* are what the two optional lookups come to
Cascade(f, login, deferLanguageCheck, so, li) ==
    LET enriched == Enriched[login]
        detectedLanguage == DetectedLanguage[login]
        soData == IF f.enableStackOverflow THEN enrichWithSOData(so) ELSE NoSOData
        linkedInData ==
            IF f.enableLinkedIn THEN enrichWithLinkedIn(enriched.user.name, li)
            ELSE NoLinkedInData
    IN IF ~LanguageFilterPasses(f, detectedLanguage, deferLanguageCheck)
       THEN Skipped("language")
       ELSE IF ~SkillFilterPasses(f, enriched) THEN Skipped("skills")
       ELSE IF ~RecencyFilterPasses(f, lastActivityOf(enriched)) THEN Skipped("recency")
       ELSE IF ~StarFilterPasses(f, enriched) THEN Skipped("stars")
       ELSE IF ~DeferredCheckPasses(f, deferLanguageCheck, linkedInData)
       THEN Skipped("deferredLanguage")
       ELSE [exit |-> "accepted",
             pushed |-> <<EnrichedCandidate(enriched, detectedLanguage, soData, linkedInData)>>]

\* route.ts:85-261: the try block and its catch
BatchIteration(f, login, error, so, li) ==
    IF error # NoError
    THEN IF IsRateLimitError(error)
         THEN [exit |-> "rateLimited", pushed |-> <<PlaceholderCandidate(login)>>]
         ELSE Skipped("error")
    ELSE Cascade(f, login, BatchDeferLanguageCheck(f, login), so, li)

\* part_004:285-457: the catch only logs
StreamIteration(f, login, error, so, li) ==
    IF error # NoError
    THEN Skipped("error")
    ELSE Cascade(f, login, StreamDeferLanguageCheck(f, login), so, li)

\* part_004:103-107
hasSkill(f, enriched, liProfile) ==
    \E i \in 1..Len(f.techSkills) :
        \/ \E j \in 1..Len(enriched.techSkills) :
              toLowerCase(enriched.techSkills[j]) = toLowerCase(f.techSkills[i])
        \/ \E j \in 1..Len(liProfile.skills) :
              Includes(toLowerCase(liProfile.skills[j]), toLowerCase(f.techSkills[i]))

\* a || b for strings
OrElse(a, b) == IF a = Null \/ a = "" THEN b ELSE a

\* part_004:123-155
LinkedInFirstCandidate(f, enriched, liProfile) ==
    LET candidateData ==
            [github_username |-> enriched.user.login,
             name |-> OrElse(enriched.user.name, liProfile.name),
             bio |-> enriched.user.bio,
             location |-> OrElse(enriched.user.location, liProfile.location),
             avatar_url |-> enriched.user.avatar_url,
             public_repos |-> enriched.user.public_repos,
             followers |-> enriched.user.followers,
             total_stars |-> enriched.totalStars,
             tech_skills |->
                 Take(MergeSkills(enriched.techSkills, liProfile.skills), MaxTechSkills),
             detected_spoken_language |-> f.spokenLanguage,
             last_activity_at |-> lastActivityOf(enriched),
             total_commits |-> 0,
             stackoverflow_id |-> 0,
             stackoverflow_reputation |-> 0,
             linkedin_url |-> liProfile.profileUrl]
    IN WithScore(candidateData, calculateScore(candidateData))

\* part_004:76-165: githubUsername is 0 when findGitHubFromLinkedIn finds none
LinkedInIteration(f, liProfile, githubUsername, error) ==
    IF githubUsername = 0 THEN Skipped("noGitHub")
    ELSE IF error # NoError THEN Skipped("error")
    ELSE IF Len(f.techSkills) > 0 /\ ~hasSkill(f, Enriched[githubUsername], liProfile)
    THEN Skipped("skills")
    ELSE [exit |-> "accepted",
          pushed |-> <<LinkedInFirstCandidate(f, Enriched[githubUsername], liProfile)>>]

\* searchLinkedInWithFilters keeps the profiles whose languages include the target
\* (linkedin.ts:269-275)
LinkedInSearchHits(f) ==
    {w \in {"german", "english"} :
        \E i \in 1..Len(LinkedInProfile(w).languages) :
            Includes(toLowerCase(LinkedInProfile(w).languages[i]), toLowerCase(f.spokenLanguage))}

(***************************************************************************)
(* State                                                                   *)
(***************************************************************************)
VARIABLES
    route,       \* "batch": POST of api/search; "stream": POST of the streaming route
    filters,     \* the SearchFilters of the request
    pc,          \* where the handler is: "start", "linkedin", "search", "github", "done"
    cursor,      \* the login of the last identity taken from allUsers
    index,       \* how many entries of allUsers (of linkedInResults.profiles) were taken
    candidates,  \* the candidates array of the running loop
    last,        \* the last pass of a loop: its identity, what the calls came to and
                 \* the statement that ended it
    events,      \* what send() has enqueued on the stream
    response,    \* the batch route's JSON response (status 0: none yet)
    closeCalls,  \* how often close() was called on the stream
    arg,         \* the argument of a library function called on its own
    out,         \* what that call returned
    configured,  \* isSupabaseConfigured(): both environment variables are set
    store,       \* the rows of the cache table, by key
    now,         \* the clock, in hours
    inflight,    \* per caller: the getCached call that awaits its delete
    lastSet,     \* per key: the last completed setCache not yet set or invalidated again
    ret          \* the cache call that returned last

searchVars == <<route, filters, pc, cursor, index, candidates, last, events, response,
                closeCalls>>

libVars == <<arg, out>>

cacheVars == <<configured, store, now, inflight, lastSet, ret>>

vars == <<searchVars, libVars, cacheVars>>

\* The requests of the model. location and minFollowers only shape the query
\* string and are left out. maxResults 0 is "absent"; it is drawn only with the
\* plain request, whose result list is long enough to reach the default of 10.
PlainFilters ==
    [techSkills |-> <<>>, spokenLanguage |-> "", strictLanguageFilter |-> FALSE,
     enableStackOverflow |-> FALSE, enableLinkedIn |-> FALSE,
     recentActivityMonths |-> 0, minStars |-> 0, maxResults |-> 0]

\* every combination of the language target and the three flags, with at most
\* one of the narrowing filters (skills, recency, stars) set, capped at 2; and
\* the plain request with every cap
FilterChoices ==
    {f \in [techSkills : {<<>>, <<"Python", "go">>},
            spokenLanguage : {"", "German"},
            strictLanguageFilter : BOOLEAN,
            enableStackOverflow : BOOLEAN,
            enableLinkedIn : BOOLEAN,
            recentActivityMonths : {0, 1},
            minStars : {0, 10},
            maxResults : {2}] :
        /\ f.strictLanguageFilter => f.spokenLanguage # ""
        /\ Cardinality({n \in {"skills", "recency", "stars"} :
                           \/ n = "skills" /\ f.techSkills # <<>>
                           \/ n = "recency" /\ f.recentActivityMonths # 0
                           \/ n = "stars" /\ f.minStars # 0}) <= 1}
    \cup {[PlainFilters EXCEPT !.maxResults = m] : m \in {0, 1}}

\* no library function is being called on its own
NoCall == [fn |-> "none"]

LibIdle == arg = NoCall /\ out = NoCall

(***************************************************************************)
(* The cache table (src/unnamed/part_002:1-73)                             *)
(***************************************************************************)
CACHE_TTL_HOURS == 24

\* the concurrent searches that read the cache
NumCallers == 2

\* the cache calls of a run
MaxCalls == 3

\* the hours one tick of the clock takes, and the last hour of a run
ClockStep == 12

MaxNow == 36

Callers == 1..NumCallers

\* cacheKey('github-user', username) for two users, one login a prefix of the other
CacheKeys == {"github-user:al", "github-user:alice"}

CacheValues == {"v1", "v2"}

NoRow == [data |-> Null, expires_at |-> -1]

Row(data, expiresAt) == [data |-> data, expires_at |-> expiresAt]

EmptyStore == [k \in CacheKeys |-> NoRow]

\* a select, upsert or delete: done, answered with { error }, or thrown (the client
\* cannot be built, the request rejects)
StoreOutcomes == {"ok", "error", "throws"}

NoGet == [key |-> ""]

NoSet == [value |-> Null, at |-> -1]

NoReturn == [op |-> "none"]

CacheIdle ==
    /\ configured = FALSE
    /\ store = EmptyStore
    /\ now = 0
    /\ inflight = [c \in Callers |-> NoGet]
    /\ lastSet = [k \in CacheKeys |-> NoSet]
    /\ ret = NoReturn

NoLast == [login |-> 0, error |-> NoError, so |-> "notcalled", li |-> "notcalled",
           exit |-> "none"]

NoResponse == [status |-> 0, candidates |-> <<>>]

Init ==
    /\ route \in {"batch", "stream"}
    /\ filters \in FilterChoices
    /\ pc = "start"
    /\ cursor = 0
    /\ index = 0
    /\ candidates = <<>>
    /\ last = NoLast
    /\ events = <<>>
    /\ response = NoResponse
    /\ closeCalls = 0
    /\ LibIdle
    /\ CacheIdle

(***************************************************************************)
(* allUsers is revealed one identity at a time, in increasing login order: *)
(* a pass takes any later profile account (those in between are not in the *)
(* search result), MaxUsers identities at most. Only the plain request     *)
(* without maxResults has a longer list: the plain accounts beyond         *)
(* NumProfiles follow one by one, enriched without error, until the list   *)
(* holds one identity more than the default cap.                           *)
(***************************************************************************)
NextLogins(f, c, i) ==
    {l \in (c + 1)..NumProfiles : i < MaxUsers}
    \cup (IF f.maxResults = 0 /\ i < DefaultMaxResults + 1
          THEN {(IF c < NumProfiles THEN NumProfiles ELSE c) + 1}
          ELSE {})

ErrorChoices(login) == IF login <= NumProfiles THEN EnrichErrors \cup {NoError} ELSE {NoError}

SOChoices(f, reached) ==
    IF reached /\ f.enableStackOverflow THEN SOOutcomes ELSE {"notcalled"}

LIChoices(f, login, reached) ==
    IF reached /\ f.enableLinkedIn /\ Enriched[login].user.name # Null
    THEN LIOutcomes ELSE {"notcalled"}

\* supabase.from('search_history').insert(...): stored, refused by the store (the
\* error is returned and ignored), or thrown by the proxy of an unconfigured client
InsertOutcomes == {"ok", "error", "throws"}

Progress(stage) == [event |-> "progress", stage |-> stage]

\* a 'candidate' event that reports the target as the count, to compare
\* CandidateEvent with
CandidateEventFoundIsTarget(candidate, found, target) ==
    [event |-> "candidate", candidate |-> candidate, found |-> target, target |-> target]

CandidateEvent(candidate, found, target) ==
    [event |-> "candidate", candidate |-> candidate, found |-> found, target |-> target]

CompleteEvent(cands) == [event |-> "complete", candidates |-> cands]

ErrorEvent == [event |-> "error", message |-> "Search failed"]

(***************************************************************************)
(* Batch route (src/src/app/api/search/route.ts:9-285)                     *)
(***************************************************************************)
\* lines 11-80: the GitHub search; a throw of searchUsers ends in the outer catch
BatchSearchUsers ==
    /\ route = "batch" /\ pc = "start"
    /\ \E searchOk \in BOOLEAN :
          IF searchOk
          THEN pc' = "github" /\ response' = response
          ELSE pc' = "done" /\ response' = [status |-> 500, candidates |-> <<>>]
    /\ UNCHANGED <<libVars, cacheVars, route, filters, cursor, index, candidates, last, events, closeCalls>>

\* lines 82-262: one pass of the loop
BatchEnrichUser ==
    /\ route = "batch" /\ pc = "github"
    /\ Len(candidates) < MaxResultsOf(filters)
    /\ \E login \in NextLogins(filters, cursor, index) :
       \E error \in ErrorChoices(login) :
          LET reached == error = NoError
                           /\ PassesFilters(filters, login,
                                            BatchDeferLanguageCheck(filters, login))
          IN \E so \in SOChoices(filters, reached) :
             \E li \in LIChoices(filters, login, reached) :
                LET pass == BatchIteration(filters, login, error, so, li)
                IN /\ candidates' = candidates \o pass.pushed
                   /\ cursor' = login
                   /\ index' = index + 1
                   /\ last' = [login |-> login, error |-> error, so |-> so, li |-> li,
                               exit |-> pass.exit]
    /\ UNCHANGED <<libVars, cacheVars, route, filters, pc, events, response, closeCalls>>

\* lines 264-284: allUsers is exhausted or the loop broke
BatchFinish ==
    /\ route = "batch" /\ pc = "github"
    /\ \E insert \in InsertOutcomes :
          LET sorted == SortByScore(candidates)
          IN /\ candidates' = sorted
             /\ response' = IF insert = "throws"
                            THEN [status |-> 500, candidates |-> <<>>]
                            ELSE [status |-> 200, candidates |-> sorted]
    /\ pc' = "done"
    /\ UNCHANGED <<libVars, cacheVars, route, filters, cursor, index, last, events, closeCalls>>

(***************************************************************************)
(* Streaming route (src/unnamed/part_004:30-490)                           *)
(***************************************************************************)
LinkedInFirst(f) == f.strictLanguageFilter /\ f.enableLinkedIn /\ f.spokenLanguage # ""

\* lines 36-69: the LinkedIn search of the LinkedIn-first approach, when it applies
StreamStart ==
    /\ route = "stream" /\ pc = "start"
    /\ IF LinkedInFirst(filters)
       THEN \E result \in {"error", "empty"}
                            \cup (IF LinkedInSearchHits(filters) # {} THEN {"profiles"} ELSE {}) :
               CASE result = "error" ->
                       /\ events' = <<Progress("init"), Progress("linkedin"), Progress("linkedin")>>
                       /\ pc' = "search"
                 [] result = "empty" ->
                       /\ events' = <<Progress("init"), Progress("linkedin")>>
                       /\ pc' = "search"
                 [] result = "profiles" ->
                       /\ events' = <<Progress("init"), Progress("linkedin"), Progress("linkedin")>>
                       /\ pc' = "linkedin"
       ELSE /\ events' = <<Progress("init")>>
            /\ pc' = "search"
    /\ UNCHANGED <<libVars, cacheVars, route, filters, cursor, index, candidates, last, response, closeCalls>>

\* lines 73-166: one pass over linkedInResults.profiles
StreamLinkedInUser ==
    /\ route = "stream" /\ pc = "linkedin"
    /\ index < MaxUsers
    /\ Len(candidates) < MaxResultsOf(filters)
    /\ \E which \in LinkedInSearchHits(filters) :
       \E githubUsername \in 0..NumProfiles :
       \E error \in (IF githubUsername = 0 THEN {NoError} ELSE EnrichErrors \cup {NoError}) :
          LET pass == LinkedInIteration(filters, LinkedInProfile(which), githubUsername, error)
              pushed == candidates \o pass.pushed
          IN /\ candidates' = pushed
             /\ last' = [login |-> githubUsername, error |-> error, so |-> "notcalled",
                         li |-> which, exit |-> pass.exit]
             /\ events' =
                   events \o <<Progress("github")>>
                     \o (IF pass.exit = "noGitHub" THEN <<Progress("github")>> ELSE <<>>)
                     \o (IF pass.exit = "accepted"
                         THEN <<CandidateEvent(pushed[Len(pushed)], Len(pushed),
                                               MaxResultsOf(filters))>>
                         ELSE <<>>)
    /\ index' = index + 1
    /\ UNCHANGED <<libVars, cacheVars, route, filters, pc, cursor, response, closeCalls>>

\* lines 168-190, and 475-480 when the history insert throws. After a 'complete'
\* the handler calls close() and returns, and the finally block calls close() again
StreamLinkedInFinish ==
    /\ route = "stream" /\ pc = "linkedin"
    /\ index >= 1
    /\ IF Len(candidates) > 0
       THEN \E insert \in InsertOutcomes :
               LET sorted == SortByScore(candidates)
               IN /\ candidates' = sorted
                  /\ IF insert = "throws"
                     THEN /\ events' = Append(events, ErrorEvent)
                          /\ closeCalls' = closeCalls + 1
                     ELSE /\ events' = Append(events, CompleteEvent(sorted))
                          /\ closeCalls' = closeCalls + 2
                  /\ pc' = "done"
                  /\ index' = index
       ELSE /\ events' = Append(events, Progress("github"))
            /\ pc' = "search"
            /\ index' = 0
            /\ UNCHANGED <<candidates, closeCalls>>
    /\ UNCHANGED <<libVars, cacheVars, route, filters, cursor, last, response>>

\* lines 193-270: the GitHub search; a throw of searchUsers ends in the catch
StreamSearchUsers ==
    /\ route = "stream" /\ pc = "search"
    /\ \E searchOk \in BOOLEAN :
          IF searchOk
          THEN /\ events' =
                     events \o <<Progress("github"), Progress("github")>>
                       \o (IF filters.strictLanguageFilter /\ filters.spokenLanguage # ""
                           THEN <<Progress("github")>> ELSE <<>>)
                       \o <<Progress("enrich")>>
               /\ pc' = "github"
               /\ closeCalls' = closeCalls
          ELSE /\ events' = events \o <<Progress("github"), ErrorEvent>>
               /\ pc' = "done"
               /\ closeCalls' = closeCalls + 1
    /\ candidates' = <<>>
    /\ index' = 0
    /\ UNCHANGED <<libVars, cacheVars, route, filters, cursor, last, response>>

\* lines 272-458: one pass of the loop
StreamEnrichUser ==
    /\ route = "stream" /\ pc = "github"
    /\ Len(candidates) < MaxResultsOf(filters)
    /\ \E login \in NextLogins(filters, cursor, index) :
       \E error \in ErrorChoices(login) :
          LET reached == error = NoError
                           /\ PassesFilters(filters, login,
                                            StreamDeferLanguageCheck(filters, login))
          IN \E so \in SOChoices(filters, reached) :
             \E li \in LIChoices(filters, login, reached) :
                LET pass == StreamIteration(filters, login, error, so, li)
                    pushed == candidates \o pass.pushed
                    linkedInData == IF filters.enableLinkedIn /\ reached
                                    THEN enrichWithLinkedIn(Enriched[login].user.name, li)
                                    ELSE NoLinkedInData
                IN /\ candidates' = pushed
                   /\ cursor' = login
                   /\ index' = index + 1
                   /\ last' = [login |-> login, error |-> error, so |-> so, li |-> li,
                               exit |-> pass.exit]
                   /\ events' =
                         events \o <<Progress("enrich")>>
                           \o (IF reached /\ filters.enableStackOverflow
                               THEN <<Progress("stackoverflow")>> ELSE <<>>)
                           \o (IF reached /\ filters.enableLinkedIn
                               THEN <<Progress("linkedin")>> ELSE <<>>)
                           \o (IF Len(linkedInData.linkedinLanguages) > 0
                               THEN <<Progress("linkedin")>> ELSE <<>>)
                           \o (IF pass.exit = "accepted"
                               THEN <<CandidateEvent(pushed[Len(pushed)], Len(pushed),
                                                     MaxResultsOf(filters))>>
                               ELSE <<>>)
    /\ UNCHANGED <<libVars, cacheVars, route, filters, pc, response, closeCalls>>

\* lines 460-480: allUsers is exhausted or the loop broke
StreamFinish ==
    /\ route = "stream" /\ pc = "github"
    /\ \E insert \in InsertOutcomes :
          LET sorted == SortByScore(candidates)
          IN /\ candidates' = sorted
             /\ events' = Append(events, IF insert = "throws" THEN ErrorEvent
                                         ELSE CompleteEvent(sorted))
    /\ closeCalls' = closeCalls + 1
    /\ pc' = "done"
    /\ UNCHANGED <<libVars, cacheVars, route, filters, cursor, index, last, response>>

Next ==
    \/ BatchSearchUsers
    \/ BatchEnrichUser
    \/ BatchFinish
    \/ StreamStart
    \/ StreamLinkedInUser
    \/ StreamLinkedInFinish
    \/ StreamSearchUsers
    \/ StreamEnrichUser
    \/ StreamFinish

Spec == Init /\ [][Next]_vars

(***************************************************************************)
(* What a search returns                                                   *)
(***************************************************************************)
\* the candidate lists a client receives: the batch route's 200 response and the
\* streaming route's 'complete' events
Results ==
    (IF response.status = 200 THEN {response.candidates} ELSE {})
    \cup {events[i].candidates : i \in {j \in 1..Len(events) : events[j].event = "complete"}}

\* every candidate the handler holds or has sent
Emitted ==
    {candidates[i] : i \in 1..Len(candidates)}
    \cup UNION {{r[i] : i \in 1..Len(r)} : r \in Results}
    \cup {events[i].candidate : i \in {j \in 1..Len(events) : events[j].event = "candidate"}}

IsPlaceholder(c) == c = PlaceholderCandidate(c.github_username)

\* last is a pass of the batch loop or of the streaming route's GitHub loop
GitHubPass == pc = "github" /\ index >= 1

FailedLookups == {"notfound", "error"}

SortedDescending(r) == \A i, j \in 1..Len(r) : i < j => r[i].score >= r[j].score

\* C2: the batch response's list and every 'complete' event's list are sorted by
\* score in descending order, placeholders included
C2_SortedByScore == \A r \in Results : SortedDescending(r)

\* a returned list in which an enriched candidate stands before a placeholder that
\* the loop had pushed earlier
C2_SortMovedPlaceholder ==
    \E r \in Results :
        /\ Len(r) = 2
        /\ ~IsPlaceholder(r[1]) /\ IsPlaceholder(r[2])
        /\ r[1].github_username > r[2].github_username
        /\ r[1].score > r[2].score

\* C3 as stated: with a language, the strict filter and LinkedIn off, every
\* candidate of the batch result carries the requested language
C3_StrictBatchAllConfirmed ==
    (/\ route = "batch"
     /\ filters.spokenLanguage # ""
     /\ filters.strictLanguageFilter
     /\ ~filters.enableLinkedIn)
    => \A r \in Results : \A i \in 1..Len(r) :
           r[i].detected_spoken_language = filters.spokenLanguage

\* C4: in lenient mode an enriched candidate passes the language filter exactly
\* when the detector returned nothing or the requested language
C4_LenientFilter ==
    (/\ GitHubPass
     /\ last.error = NoError
     /\ filters.spokenLanguage # ""
     /\ ~filters.strictLanguageFilter)
    => LET detected == DetectedLanguage[last.login]
       IN (last.exit # "language") <=> (detected = Null \/ detected = filters.spokenLanguage)

\* a lenient search that kept a candidate without a detected language and then
\* dropped one with another language
C4_UnknownKeptOtherDropped ==
    /\ GitHubPass
    /\ filters.spokenLanguage # "" /\ ~filters.strictLanguageFilter
    /\ last.exit = "language"
    /\ DetectedLanguage[last.login] \notin {Null, filters.spokenLanguage}
    /\ \E i \in 1..Len(candidates) : candidates[i].detected_spoken_language = Null

\* the requested skills are all among the skills enrichUserData derived from the
\* account's repositories
HasRequestedSkills(c) ==
    \A i \in 1..Len(filters.techSkills) :
        \E j \in 1..Len(Enriched[c.github_username].techSkills) :
            toLowerCase(Enriched[c.github_username].techSkills[j])
                = toLowerCase(filters.techSkills[i])

\* C5 as stated: with more than one requested skill every enriched candidate of
\* every result has all of them among its GitHub-derived skills
C5_AllSkillsEverywhere ==
    Len(filters.techSkills) > 1
    => \A r \in Results : \A i \in 1..Len(r) :
           ~IsPlaceholder(r[i]) => HasRequestedSkills(r[i])

RECURSIVE LatestPush(_)
LatestPush(repos) ==
    IF Len(repos) = 1 THEN repos[1].pushed_at
    ELSE Min(repos[1].pushed_at, LatestPush(Tail(repos)))

\* the age of the account's most recent activity
LatestActivity(login) ==
    IF GitHubRepos(login) = <<>> THEN GitHubUser(login).updated_at
    ELSE LatestPush(GitHubRepos(login))

\* C6 as stated: with recentActivityMonths set, no enriched candidate of any
\* result was last active more than that many 30-day months ago
C6_RecencyEverywhere ==
    filters.recentActivityMonths # 0
    => \A r \in Results : \A i \in 1..Len(r) :
           ~IsPlaceholder(r[i])
           => LatestActivity(r[i].github_username) <= 30 * filters.recentActivityMonths

DroppedForLanguage == {"language", "deferredLanguage"}

\* C7 as stated: in both routes a strict search defers a candidate's language
\* check exactly when LinkedIn is on, nothing was detected and location or bio
\* hint at the target; a deferred candidate is kept only with the target among
\* its LinkedIn languages, any other is decided by the exact detected match
C7_DeferralNeedsHint ==
    (/\ GitHubPass
     /\ last.error = NoError
     /\ filters.spokenLanguage # ""
     /\ filters.strictLanguageFilter)
    => LET user == GitHubUser(last.login)
           detected == DetectedLanguage[last.login]
           deferred == /\ filters.enableLinkedIn
                       /\ detected = Null
                       /\ hasLanguageHint(filters.spokenLanguage, user.location, user.bio)
           inLinkedIn == linkedInHasLanguage(filters, enrichWithLinkedIn(user.name, last.li))
       IN IF deferred
          THEN /\ last.exit = "accepted" => inLinkedIn
               /\ last.exit \in DroppedForLanguage => ~inLinkedIn
          ELSE (last.exit \in DroppedForLanguage) <=> (detected # filters.spokenLanguage)

\* C8 as stated: in the batch and the streaming loop a rate-limit failure of the
\* enrichment leaves exactly one placeholder for the identity, any other failure
\* leaves no candidate for it
C8_PlaceholderEverywhere ==
    (GitHubPass /\ last.error # NoError)
    => LET mine == {i \in 1..Len(candidates) : candidates[i].github_username = last.login}
       IN IF IsRateLimitError(last.error)
          THEN /\ mine = {Len(candidates)}
               /\ candidates[Len(candidates)] = PlaceholderCandidate(last.login)
          ELSE mine = {}

\* last passed the language, skill, recency and star filters and one of its
\* optional lookups failed
LookupFailedAfterFilters ==
    /\ GitHubPass
    /\ last.error = NoError
    /\ last.exit \notin {"language", "skills", "recency", "stars"}
    /\ last.so \in FailedLookups \/ last.li \in FailedLookups

\* the candidate of the last pass was appended, without the fields of the lookups
\* that failed
AppendedWithoutFailedFields ==
    /\ last.exit = "accepted"
    /\ Len(candidates) >= 1
    /\ LET c == candidates[Len(candidates)]
       IN /\ c.github_username = last.login
          /\ last.so \in FailedLookups
             => c.stackoverflow_id = 0 /\ c.stackoverflow_reputation = 0
          /\ last.li \in FailedLookups => c.linkedin_url = Null

\* C9 as stated: a failed Stack Overflow or LinkedIn lookup never removes a
\* candidate that passed the four filters, whatever the flags
C9_LookupFailureNeverRemoves == LookupFailedAfterFilters => AppendedWithoutFailedFields

\* C9, amended: a failed Stack Overflow or LinkedIn lookup never removes a
\* candidate that passed the four filters, unless the strict filter and LinkedIn
\* are both on and the detector returned nothing for it
C9_LookupFailureRemovesOnlyUndetected ==
    (/\ LookupFailedAfterFilters
     /\ ~(/\ filters.strictLanguageFilter
          /\ filters.enableLinkedIn
          /\ DetectedLanguage[last.login] = Null))
    => AppendedWithoutFailedFields

\* with both lookups on and both failed, a candidate with a detected language was
\* appended under the strict filter
C9_BothLookupsFailedKept ==
    /\ LookupFailedAfterFilters
    /\ filters.strictLanguageFilter /\ filters.enableLinkedIn
    /\ last.so = "error" /\ last.li = "error"
    /\ last.exit = "accepted"

\* C10: every candidate carries calculateScore of its own attributes, or is a
\* rate-limit placeholder with the sentinel score 10 (in hundredths)
C10_ScoreFromAttributes ==
    \A c \in Emitted :
        \/ c.score = calculateScore(c)
        \/ IsPlaceholder(c) /\ c.score = 1000

\* a result with a placeholder and a candidate that has a Stack Overflow reputation
C10_PlaceholderAndScored ==
    \E r \in Results :
        /\ \E i \in 1..Len(r) : IsPlaceholder(r[i]) /\ r[i].score = 1000
        /\ \E i \in 1..Len(r) : r[i].stackoverflow_reputation > 0 /\ r[i].score > 1000

\* no two entries of the list are equal when compared in lower case
DistinctIgnoringCase(skills) ==
    \A i, j \in 1..Len(skills) : i < j => toLowerCase(skills[i]) # toLowerCase(skills[j])

\* C11 as stated: the tech_skills of every candidate have at most 15 entries, no
\* two of them equal when compared case-insensitively
C11_SkillsBoundedAndDistinct ==
    \A c \in Emitted : Len(c.tech_skills) <= 15 /\ DistinctIgnoringCase(c.tech_skills)

TerminalEvents == {"complete", "error"}

\* the 'candidate' events sent so far, in the order sent
CandidateEvents == SelectSeq(events, LAMBDA e : e.event = "candidate")

\* the candidates of the 'candidate' events, in the order sent
RECURSIVE CandidatesOf(_)
CandidatesOf(evs) ==
    IF evs = <<>> THEN <<>> ELSE <<Head(evs).candidate>> \o CandidatesOf(Tail(evs))

\* how often x occurs in q
CountIn(q, x) == Cardinality({i \in 1..Len(q) : q[i] = x})

SamePermutation(p, q) ==
    /\ Len(p) = Len(q)
    /\ \A i \in 1..Len(p) : CountIn(p, p[i]) = CountIn(q, p[i])

\* C12: a streaming run sends progress and candidate events and then one terminal
\* event, after which nothing is sent; the k-th accepted candidate is the k-th
\* 'candidate' event, with found = k; 'complete' lists exactly the emitted candidates
C12_StreamEventSequence ==
    route = "stream" =>
        /\ \A i \in 1..Len(events) :
              /\ events[i].event \in {"progress", "candidate"} \cup TerminalEvents
              /\ events[i].event \in TerminalEvents => i = Len(events)
        /\ pc = "done" => Len(events) >= 1 /\ events[Len(events)].event \in TerminalEvents
        /\ pc # "done" => CandidatesOf(CandidateEvents) = candidates
        /\ \A k \in 1..Len(CandidateEvents) : CandidateEvents[k].found = k
        /\ \A i \in 1..Len(events) :
              events[i].event = "complete"
              => SamePermutation(events[i].candidates, CandidatesOf(CandidateEvents))

\* a streaming run ended with 'complete' after two 'candidate' events whose order
\* the final ranking reversed
C12_CompleteReordersEmitted ==
    /\ route = "stream" /\ pc = "done"
    /\ Len(CandidateEvents) = 2
    /\ events[Len(events)].event = "complete"
    /\ events[Len(events)].candidates
         = <<CandidateEvents[2].candidate, CandidateEvents[1].candidate>>
    /\ CandidateEvents[1].candidate # CandidateEvents[2].candidate

(***************************************************************************)
(* The page that reads the stream (src/src/app/page.tsx:30-94)             *)
(***************************************************************************)
\* handleSearch, one event: the candidate list and the error the page shows after it
ClientAfter(page, e) ==
    CASE e.event = "candidate" ->
            IF \E i \in 1..Len(page.candidates) :
                   page.candidates[i].github_username = e.candidate.github_username
            THEN page
            ELSE [page EXCEPT !.candidates = SortByScore(Append(page.candidates, e.candidate))]
      [] e.event = "complete" -> [page EXCEPT !.candidates = e.candidates]
      [] e.event = "error" -> [page EXCEPT !.error = e.message]
      [] OTHER -> page

RECURSIVE ClientAfterAll(_, _)
ClientAfterAll(page, evs) ==
    IF evs = <<>> THEN page ELSE ClientAfterAll(ClientAfter(page, Head(evs)), Tail(evs))

\* what the page shows once it has read the events sent so far
ClientPage == ClientAfterAll([candidates |-> <<>>, error |-> Null], events)

\* C13 as stated: a search that ends in the top-level error has handed no candidate
\* to its caller: a 500 response carries none, no 'candidate' event precedes an
\* 'error' event, and the page's list is empty once it shows the error
C13_ErrorMeansNoCandidates ==
    /\ response.status = 500 => response.candidates = <<>>
    /\ (route = "stream" /\ events # <<>> /\ events[Len(events)].event = "error")
       => CandidateEvents = <<>> /\ ClientPage.candidates = <<>>

\* C14 as stated: whatever the search-history write comes to, the batch route
\* answers a finished loop with the ranked list (status 200) and the streaming
\* route ends a finished loop with a 'complete' event
C14_HistoryFailureInvisible ==
    [][/\ (route = "batch" /\ pc = "github" /\ pc' = "done")
          => response'.status = 200 /\ response'.candidates = SortByScore(candidates)
       /\ (route = "stream" /\ pc \in {"linkedin", "github"} /\ pc' = "done")
          => events'[Len(events')] = CompleteEvent(SortByScore(candidates))]_vars

(***************************************************************************)
(* The cache on its own: concurrent searches call getCached, setCache and  *)
(* invalidateCache on a shared table while the clock advances              *)
(* (src/unnamed/part_002:1-73)                                             *)
(***************************************************************************)
\* no search is running
SearchIdle ==
    /\ route = "none"
    /\ filters = PlainFilters
    /\ pc = "idle"
    /\ cursor = 0
    /\ index = 0
    /\ candidates = <<>>
    /\ last = NoLast
    /\ events = <<>>
    /\ response = NoResponse
    /\ closeCalls = 0

\* the table may hold a row that an earlier process wrote and that has expired
CacheInit ==
    /\ SearchIdle
    /\ LibIdle
    /\ configured \in BOOLEAN
    /\ store \in {EmptyStore} \cup {[EmptyStore EXCEPT ![k] = Row("v1", 0)] : k \in CacheKeys}
    /\ now = 0
    /\ inflight = [c \in Callers |-> NoGet]
    /\ lastSet = [k \in CacheKeys |-> NoSet]
    /\ ret = NoReturn

\* how many cache calls have returned
Returned == IF ret = NoReturn THEN 0 ELSE ret.count

\* what the call hands to its caller: raised is TRUE when it throws; outcome is what
\* its last store operation came to ("none": the store was not accessed)
Return(op, key, value, raised, outcome, expected) ==
    [op |-> op, key |-> key, value |-> value, raised |-> raised, outcome |-> outcome,
     expected |-> expected, count |-> Returned + 1]

\* .like('key', `${keyPattern}%`): the key starts with the pattern, a _ of the
\* pattern standing for any character
LikePrefix(key, pattern) ==
    /\ Len(pattern) <= Len(key)
    /\ \A i \in 1..Len(pattern) :
          CharAt(pattern, i) = "_" \/ CharAt(pattern, i) = CharAt(key, i)

\* new Date(data.expires_at) < new Date()
Expired(row, clock) == row.expires_at < clock

NoExpectation == [known |-> FALSE, value |-> Null]

\* what a getCached(k) that reads the table now should return: the value of the
\* last completed setCache(k, v) for the 24 hours after it, nothing later on;
\* no expectation when k was not set, or was set or invalidated again
Expectation(k) ==
    IF lastSet[k] = NoSet THEN NoExpectation
    ELSE [known |-> TRUE,
          value |-> IF now <= lastSet[k].at + 24 THEN lastSet[k].value ELSE Null]

\* a getCached whose try block threw lets the error escape, to compare
\* getCachedCatch with
getCachedUncaught(outcome) == outcome = "throws"

\* getCached, lines 17 and 35-37: the catch returns null, nothing is raised
getCachedCatch(outcome) == FALSE

\* lines 15-33, the select: the call returns, or awaits the delete of an expired row
GetCachedSelect(c) ==
    /\ inflight[c] = NoGet
    /\ Returned < MaxCalls
    /\ \E k \in CacheKeys :
          IF ~configured
          THEN /\ ret' = Return("getCached", k, Null, FALSE, "none", NoExpectation)
               /\ UNCHANGED inflight
          ELSE \E outcome \in StoreOutcomes :
                  LET row == IF outcome = "ok" THEN store[k] ELSE NoRow
                  IN IF outcome = "ok" /\ row # NoRow /\ Expired(row, now)
                     THEN /\ inflight' = [inflight EXCEPT ![c] = [key |-> k,
                                                                  expected |-> Expectation(k)]]
                          /\ UNCHANGED ret
                     ELSE /\ ret' = Return("getCached", k, row.data, getCachedCatch(outcome), outcome,
                                           IF outcome = "ok" THEN Expectation(k)
                                           ELSE NoExpectation)
                          /\ UNCHANGED inflight
    /\ UNCHANGED <<searchVars, libVars, configured, store, now, lastSet>>

\* lines 29-31: the delete of the row under the key, whatever the row is by now
GetCachedDelete(c) ==
    /\ inflight[c] # NoGet
    /\ \E outcome \in StoreOutcomes :
          /\ store' = IF outcome = "ok" THEN [store EXCEPT ![inflight[c].key] = NoRow]
                      ELSE store
          /\ ret' = Return("getCached", inflight[c].key, Null, getCachedCatch(outcome), outcome,
                           IF outcome = "ok" THEN inflight[c].expected ELSE NoExpectation)
    /\ inflight' = [inflight EXCEPT ![c] = NoGet]
    /\ UNCHANGED <<searchVars, libVars, configured, now, lastSet>>

\* setCache whose catch is missing, to compare setCacheCatch with
setCacheUncaught(outcome) == outcome = "throws"

\* setCache and invalidateCache: the catch logs, nothing is raised
setCacheCatch(outcome) == FALSE

\* lines 40-59: one upsert of the row, expiring CACHE_TTL_HOURS from now
SetCache ==
    /\ Returned < MaxCalls
    /\ \E k \in CacheKeys, v \in CacheValues :
          IF ~configured
          THEN /\ ret' = Return("setCache", k, Null, FALSE, "none", NoExpectation)
               /\ UNCHANGED <<store, lastSet>>
          ELSE \E outcome \in StoreOutcomes :
                  /\ store' = IF outcome = "ok"
                              THEN [store EXCEPT ![k] = Row(v, now + CACHE_TTL_HOURS)]
                              ELSE store
                  /\ lastSet' = [lastSet EXCEPT ![k] = IF outcome = "ok"
                                                      THEN [value |-> v, at |-> now]
                                                      ELSE NoSet]
                  /\ ret' = Return("setCache", k, Null, setCacheCatch(outcome), outcome,
                                   NoExpectation)
    /\ UNCHANGED <<searchVars, libVars, configured, now, inflight>>

\* lines 61-73: one delete of the rows whose key starts with the pattern
InvalidateCache ==
    /\ Returned < MaxCalls
    /\ \E keyPattern \in CacheKeys :
          IF ~configured
          THEN /\ ret' = Return("invalidateCache", keyPattern, Null, FALSE, "none", NoExpectation)
               /\ UNCHANGED <<store, lastSet>>
          ELSE \E outcome \in StoreOutcomes :
                  /\ store' = IF outcome = "ok"
                              THEN [k \in CacheKeys |->
                                       IF LikePrefix(k, keyPattern) THEN NoRow ELSE store[k]]
                              ELSE store
                  /\ lastSet' = [k \in CacheKeys |->
                                    IF LikePrefix(k, keyPattern) THEN NoSet ELSE lastSet[k]]
                  /\ ret' = Return("invalidateCache", keyPattern, Null, setCacheCatch(outcome),
                                   outcome, NoExpectation)
    /\ UNCHANGED <<searchVars, libVars, configured, now, inflight>>

\* time passes
Tick ==
    /\ now + ClockStep <= MaxNow
    /\ now' = now + ClockStep
    /\ UNCHANGED <<searchVars, libVars, configured, store, inflight, lastSet, ret>>

CacheNext ==
    \/ \E c \in Callers : GetCachedSelect(c)
    \/ \E c \in Callers : GetCachedDelete(c)
    \/ SetCache
    \/ InvalidateCache
    \/ Tick

CacheSpec == CacheInit /\ [][CacheNext]_vars

\* C15 as stated: with an error-free store, a getCached(k) that follows a completed
\* setCache(k, v), with no later set or invalidate of k, returns v up to 24 hours
\* after the set and nothing later on, and then leaves no row under k
C15_CacheRoundTrip ==
    (ret # NoReturn /\ ret.op = "getCached" /\ ret.expected.known)
    => /\ ret.value = ret.expected.value
       /\ ret.expected.value = Null => store[ret.key] = NoRow

\* C16: no cache call raises; an unconfigured store is not accessed and getCached
\* then returns nothing; after a failed store operation getCached returns nothing
\* (a miss) and setCache and invalidateCache return normally
C16_CacheNeverRaises ==
    ret # NoReturn
    => /\ ~ret.raised
       /\ ~configured => ret.outcome = "none" /\ ret.value = Null
       /\ (ret.op = "getCached" /\ ret.outcome # "ok") => ret.value = Null

\* a getCached returned nothing after the delete of an expired row threw, the row
\* still in the table
C16_DeleteThrewMiss ==
    /\ ret # NoReturn
    /\ ret.op = "getCached" /\ ret.outcome = "throws"
    /\ store[ret.key] # NoRow
    /\ Expired(store[ret.key], now)

(***************************************************************************)
(* calculateScore applied to one candidate (src/src/lib/supabase.ts:50-143) *)
(***************************************************************************)
ReposValues == {Absent, 0, 1, 49, 50, 51, 100}
CommitsValues == {Absent, 0, 1, 2, 3, 4999, 5000, 5001, 10000}
StarsValues == {Absent, 0, 1, 9, 10, 49, 50, 99, 100, 499, 500}
FollowersValues == {Absent, 0, 1, 9, 10, 49, 50, 99, 100, 499, 500, 999, 1000}
ReputationValues == {Absent, 0, 1, 99, 100, 499, 500, 999, 1000, 4999, 5000, 9999, 10000}
\* ages in days; a negative age other than NoDate is a timestamp in the future
ActivityValues == {NoDate, -30, 0, 29, 30, 89, 90, 179, 180, 359, 360}

ScoreCandidate(repos, commits, stars, followers, soRep, lastActivity, name, following) ==
    [public_repos |-> repos, total_commits |-> commits, total_stars |-> stars,
     followers |-> followers, stackoverflow_reputation |-> soRep,
     last_activity_at |-> lastActivity, name |-> name, following |-> following]

\* the candidates handed to calculateScore: every combination of an absent, a middle
\* and a top value of each attribute, and every pair of values of the attributes a
\* sub-score reads, around its thresholds
ScoreInputs ==
    {ScoreCandidate(r, c, s, f, so, la, nm[1], nm[2]) :
        r \in {Absent, 1, 50}, c \in {Absent, 2, 5000}, s \in {Absent, 10, 500},
        f \in {Absent, 50, 1000}, so \in {Absent, 500, 10000}, la \in {NoDate, 90, 0},
        nm \in {<<Null, Absent>>, <<"Ann", 7>>}}
    \cup {ScoreCandidate(r, c, b[1], b[2], b[3], b[4], Null, Absent) :
            r \in ReposValues, c \in CommitsValues,
            b \in {<<Absent, Absent, Absent, NoDate>>, <<10, 50, 500, 90>>}}
    \cup {ScoreCandidate(b[1], b[2], s, b[3], b[4], la, Null, Absent) :
            s \in StarsValues, la \in ActivityValues,
            b \in {<<Absent, Absent, Absent, Absent>>, <<1, 2, 50, 500>>}}
    \cup {ScoreCandidate(b[1], b[2], b[3], f, so, b[4], Null, Absent) :
            f \in FollowersValues, so \in ReputationValues,
            b \in {<<Absent, Absent, Absent, NoDate>>, <<1, 2, 10, 90>>}}

ScoreInit ==
    /\ SearchIdle
    /\ CacheIdle
    /\ out = NoCall
    /\ \E candidate \in ScoreInputs : arg = [fn |-> "calculateScore", candidate |-> candidate]

\* calculateScore(candidate), lines 50-62, with the components it computes on line 51
CalculateScore ==
    /\ arg # NoCall
    /\ out = NoCall
    /\ out' = [fn |-> "calculateScore",
               score |-> calculateScore(arg.candidate),
               components |-> calculateScoreComponents(arg.candidate)]
    /\ UNCHANGED <<searchVars, cacheVars, arg>>

ScoreNext == CalculateScore

ScoreSpec == ScoreInit /\ [][ScoreNext]_vars

Scored == out # NoCall /\ out.fn = "calculateScore"

\* the six attributes the score is said to depend on
SixAttributes(candidate) ==
    <<candidate.public_repos, candidate.total_commits, candidate.total_stars,
      candidate.followers, candidate.stackoverflow_reputation, candidate.last_activity_at>>

ComponentSum(components) ==
    components.contributionVolume + components.projectQuality
        + components.recency + components.reputation

\* C17: the score and each of the four sub-scores lies in [0, 100] (0..10000
\* hundredths), and every candidate with the same repos, commits, stars, followers,
\* Stack Overflow reputation and last activity gets the same score
C17_ScoreInRange ==
    Scored
    => /\ out.score \in 0..10000
       /\ out.components.contributionVolume \in 0..10000
       /\ out.components.projectQuality \in 0..10000
       /\ out.components.recency \in 0..10000
       /\ out.components.reputation \in 0..10000
       /\ \A other \in ScoreInputs :
            SixAttributes(other) = SixAttributes(arg.candidate)
            => calculateScore(other) = out.score

\* the top score, for a candidate that has a name and a following count as well
C17_TopScoreWithOtherAttributes ==
    /\ Scored
    /\ out.score = 10000
    /\ arg.candidate.name # Null
    /\ arg.candidate.total_commits = 5000

\* C18: the score is the mean of the four sub-scores rounded to two decimals (in
\* hundredths: four times the score is within 2 of their sum); a candidate with no
\* attribute scores 0, and one with a repository count only scores at most 25
C18_MeanOfSubScores ==
    Scored
    => LET candidate == arg.candidate
           sum == ComponentSum(out.components)
           nothingBesideRepos ==
               /\ candidate.total_commits = Absent
               /\ candidate.total_stars = Absent
               /\ candidate.followers = Absent
               /\ candidate.stackoverflow_reputation = Absent
               /\ candidate.last_activity_at = NoDate
       IN /\ 4 * out.score \in (sum - 2)..(sum + 2)
          /\ (nothingBesideRepos /\ candidate.public_repos = Absent) => out.score = 0
          /\ nothingBesideRepos => out.score <= 2500

\* a score the rounding moved up: the sum of the sub-scores is 3 hundredths over a
\* multiple of 4
C18_MeanRoundedUp ==
    /\ Scored
    /\ ComponentSum(out.components) % 4 = 3
    /\ 4 * out.score = ComponentSum(out.components) + 1

\* C19: the contribution-volume sub-score is min(repos, 50) + min(commits / 100, 50),
\* an absent commit count adding 0, and from 50 repositories on the sub-score and
\* the score are those of 50 repositories
C19_ContributionVolumeCapped ==
    Scored
    => LET candidate == arg.candidate
           repos == IF candidate.public_repos = Absent THEN 0 ELSE candidate.public_repos
           commits == IF candidate.total_commits = Absent THEN 0 ELSE candidate.total_commits
           atFifty == [candidate EXCEPT !.public_repos = 50]
       IN /\ out.components.contributionVolume
                = 100 * (IF repos < 50 THEN repos ELSE 50)
                    + (IF commits < 5000 THEN commits ELSE 5000)
          /\ repos >= 50
             => /\ out.components.contributionVolume
                      = calculateScoreComponents(atFifty).contributionVolume
                /\ out.score = calculateScore(atFifty)

\* 100 repositories and no commit count: the sub-score is 50
C19_HundredReposNoCommits ==
    /\ Scored
    /\ arg.candidate.public_repos = 100
    /\ arg.candidate.total_commits = Absent
    /\ out.components.contributionVolume = 5000

\* the tier values of C20: below the first threshold 10, then 25, 40, 60, 80, 100
TierValue(n, t1, t2, t3, t4, t5) ==
    IF n = Absent \/ n = 0 THEN 0
    ELSE IF n < t1 THEN 10
    ELSE IF n < t2 THEN 25
    ELSE IF n < t3 THEN 40
    ELSE IF n < t4 THEN 60
    ELSE IF n < t5 THEN 80
    ELSE 100

\* C20: the reputation sub-score is the follower tier when there is no Stack
\* Overflow reputation, and 0.6 of the follower tier plus 0.4 of the Stack Overflow
\* tier when there is one
C20_ReputationTiers ==
    Scored
    => LET candidate == arg.candidate
           followerTier == TierValue(candidate.followers, 10, 50, 100, 500, 1000)
           soTier ==
               TierValue(candidate.stackoverflow_reputation, 100, 500, 1000, 5000, 10000)
           soPresent ==
               /\ candidate.stackoverflow_reputation # Absent
               /\ candidate.stackoverflow_reputation # 0
       IN out.components.reputation
            = IF soPresent THEN 60 * followerTier + 40 * soTier ELSE 100 * followerTier

\* 999 followers and a Stack Overflow reputation of 5000: 0.6 * 80 + 0.4 * 80
C20_BlendedAtThresholds ==
    /\ Scored
    /\ arg.candidate.followers = 999
    /\ arg.candidate.stackoverflow_reputation = 5000
    /\ out.components.reputation = 8000

\* the count an attribute stands for, an absent one being 0
CountOf(x) == IF x = Absent THEN 0 ELSE x

\* other is the scored candidate but for one of the named attributes
SameBut(other, candidate, attribute) ==
    /\ attribute = "public_repos" \/ other.public_repos = candidate.public_repos
    /\ other.total_commits = candidate.total_commits
    /\ attribute = "total_stars" \/ other.total_stars = candidate.total_stars
    /\ attribute = "followers" \/ other.followers = candidate.followers
    /\ attribute = "stackoverflow_reputation"
         \/ other.stackoverflow_reputation = candidate.stackoverflow_reputation
    /\ attribute = "last_activity_at" \/ other.last_activity_at = candidate.last_activity_at

\* C21: a candidate that differs from the scored one only by more repositories, more
\* stars, more followers or a later last activity has no lower sub-score for that
\* attribute and no lower score
C21_MonotonicScore ==
    Scored
    => \A other \in ScoreInputs :
         LET candidate == arg.candidate
             components == calculateScoreComponents(other)
             noLower == calculateScore(other) >= out.score
         IN /\ (SameBut(other, candidate, "public_repos")
                  /\ CountOf(other.public_repos) >= CountOf(candidate.public_repos))
               => noLower /\ components.contributionVolume >= out.components.contributionVolume
            /\ (SameBut(other, candidate, "total_stars")
                  /\ CountOf(other.total_stars) >= CountOf(candidate.total_stars))
               => noLower /\ components.projectQuality >= out.components.projectQuality
            /\ (SameBut(other, candidate, "followers")
                  /\ CountOf(other.followers) >= CountOf(candidate.followers))
               => noLower /\ components.reputation >= out.components.reputation
            /\ (SameBut(other, candidate, "last_activity_at")
                  /\ candidate.last_activity_at # NoDate /\ other.last_activity_at # NoDate
                  /\ other.last_activity_at <= candidate.last_activity_at)
               => noLower /\ components.recency >= out.components.recency

\* a scored candidate of 99 stars next to which the inputs hold one of 100 stars
\* with a higher quality sub-score
C21_MoreStarsScoreMore ==
    /\ Scored
    /\ arg.candidate.total_stars = 99
    /\ \E other \in ScoreInputs :
         /\ SameBut(other, arg.candidate, "total_stars")
         /\ other.total_stars = 100
         /\ calculateScoreComponents(other).projectQuality = 8000
         /\ out.components.projectQuality = 6000

\* C30 as stated: a candidate that differs from the scored one only by a higher Stack
\* Overflow reputation, the scored one having none or some, has no lower reputation
\* sub-score and no lower score
C30_StackOverflowNeverLowers ==
    Scored
    => \A other \in ScoreInputs :
         (SameBut(other, arg.candidate, "stackoverflow_reputation")
            /\ CountOf(other.stackoverflow_reputation)
                 >= CountOf(arg.candidate.stackoverflow_reputation))
         => /\ calculateScoreComponents(other).reputation >= out.components.reputation
            /\ calculateScore(other) >= out.score

(***************************************************************************)
(* buildSearchQuery (src/src/lib/github.ts:53-75)                          *)
(***************************************************************************)
\* a string that is not the empty string, null or undefined
Truthy(x) == x # Null /\ x # ""

\* parts.join(separator)
RECURSIVE Join(_, _)
Join(parts, separator) ==
    IF parts = <<>> THEN ""
    ELSE IF Len(parts) = 1 THEN Head(parts)
    ELSE Head(parts) \o separator \o Join(Tail(parts), separator)

\* a query that lists the language before the location, to compare buildSearchQuery with
buildSearchQueryLanguageFirst(queryFilters) ==
    Join(<<"type:user">>
           \o (IF Truthy(queryFilters.language)
               THEN <<"language:" \o queryFilters.language>> ELSE <<>>)
           \o (IF Truthy(queryFilters.location)
               THEN <<"location:\"" \o queryFilters.location \o "\"">> ELSE <<>>)
           \o (IF Truthy(queryFilters.repos)
               THEN <<"repos:" \o queryFilters.repos>> ELSE <<>>)
           \o (IF Truthy(queryFilters.followers)
               THEN <<"followers:" \o queryFilters.followers>> ELSE <<>>),
         " ")

buildSearchQuery(queryFilters) ==
    LET parts0 == <<"type:user">>
        parts1 == IF Truthy(queryFilters.location)
                  THEN Append(parts0, "location:\"" \o queryFilters.location \o "\"")
                  ELSE parts0
        parts2 == IF Truthy(queryFilters.language)
                  THEN Append(parts1, "language:" \o queryFilters.language)
                  ELSE parts1
        parts3 == IF Truthy(queryFilters.repos)
                  THEN Append(parts2, "repos:" \o queryFilters.repos)
                  ELSE parts2
        parts4 == IF Truthy(queryFilters.followers)
                  THEN Append(parts3, "followers:" \o queryFilters.followers)
                  ELSE parts3
    IN Join(parts4, " ")

\* the filters handed to buildSearchQuery: each one missing, empty or given
QueryInputs ==
    [location : {Null, "", "Berlin", "Germany"},
     language : {Null, "", "Ruby", "Python"},
     repos : {Null, "", ">10"},
     followers : {Null, "", ">50", ">100"}]

QueryInit ==
    /\ SearchIdle
    /\ CacheIdle
    /\ out = NoCall
    /\ \E queryFilters \in QueryInputs :
         arg = [fn |-> "buildSearchQuery", filters |-> queryFilters]

BuildSearchQuery ==
    /\ arg # NoCall
    /\ out = NoCall
    /\ out' = [fn |-> "buildSearchQuery", query |-> buildSearchQuery(arg.filters)]
    /\ UNCHANGED <<searchVars, cacheVars, arg>>

QueryNext == BuildSearchQuery

QuerySpec == QueryInit /\ [][QueryNext]_vars

QueryBuilt == out # NoCall /\ out.fn = "buildSearchQuery"

\* C24: the query is "type:user" followed by the qualifier of each filter that is
\* given, each after one space, in the order location, language, repos, followers;
\* with no filter given it is "type:user"
C24_QueryQualifiersInOrder ==
    QueryBuilt
    => LET f == arg.filters
           given(x) == x # Null /\ x # ""
       IN /\ out.query
               = "type:user"
                   \o (IF given(f.location) THEN " location:\"" \o f.location \o "\"" ELSE "")
                   \o (IF given(f.language) THEN " language:" \o f.language ELSE "")
                   \o (IF given(f.repos) THEN " repos:" \o f.repos ELSE "")
                   \o (IF given(f.followers) THEN " followers:" \o f.followers ELSE "")
          /\ (~given(f.location) /\ ~given(f.language) /\ ~given(f.repos)
                /\ ~given(f.followers))
             => out.query = "type:user"

\* location, language and followers given, repos not
C24_ThreeFiltersCombined ==
    /\ QueryBuilt
    /\ arg.filters = [location |-> "Berlin", language |-> "Ruby", repos |-> Null,
                      followers |-> ">50"]
    /\ out.query = "type:user location:\"Berlin\" language:Ruby followers:>50"

(***************************************************************************)
(* detectSpokenLanguage applied to one profile (src/src/lib/github.ts:126-240) *)
(***************************************************************************)
\* "#" stands for a Cyrillic letter, "$" for a CJK ideograph, "%" for a Kana and
\* "&" for a Hangul character
DetectBios ==
    {Null, "", "I build things", "# dev", "$ dev", "% dev", "& dev", "$# dev", "&% dev",
     "&$ dev", "$ native german", "native german"}

DetectLocations == {Null, "Berlin", "Moscow"}

DetectNames ==
    {Null, "", "Alice", "Martin", "Kovalenko", "Dostoevsky", "Ilski", "Ivan Petrov",
     "Ivan PETROV", "John Ev", "Max Pyov", "Ivan Popov", "Anna Laszkov", "Mike Smith",
     "Anna Maria Ivanova", "Petrov Ivan", "Olga  Bondarchuk", "## ###", "$$", "%%", "&&"}

DetectInit ==
    /\ SearchIdle
    /\ CacheIdle
    /\ out = NoCall
    /\ \E bio \in DetectBios, location \in DetectLocations, name \in DetectNames :
         arg = [fn |-> "detectSpokenLanguage", bio |-> bio, location |-> location,
                name |-> name]

DetectSpokenLanguage ==
    /\ arg # NoCall
    /\ out = NoCall
    /\ out' = [fn |-> "detectSpokenLanguage",
               language |-> detectSpokenLanguage(arg.bio, arg.location, arg.name)]
    /\ UNCHANGED <<searchVars, cacheVars, arg>>

DetectNext == DetectSpokenLanguage

DetectSpec == DetectInit /\ [][DetectNext]_vars

Detected == out # NoCall /\ out.fn = "detectSpokenLanguage"

\* C22 as stated: a Cyrillic letter in the bio or the name gives "Russian", otherwise
\* a CJK ideograph in either gives "Chinese", otherwise a Kana gives "Japanese",
\* otherwise a Hangul character gives "Korean", whatever the other signals
C22_ScriptInBioOrName ==
    Detected
    => LET has(c) == HasChar(Text(arg.bio), c) \/ HasChar(Text(arg.name), c)
       IN /\ has("#") => out.language = "Russian"
          /\ (~has("#") /\ has("$")) => out.language = "Chinese"
          /\ (~has("#") /\ ~has("$") /\ has("%")) => out.language = "Japanese"
          /\ (~has("#") /\ ~has("$") /\ ~has("%") /\ has("&")) => out.language = "Korean"

\* the last of the white-space separated tokens of a name, in lower case
LastToken(name) ==
    LET tokens == SplitWords(name, 1, "") IN toLowerCase(tokens[Len(tokens)])

\* C23: with a bio and a location that carry no signal and a name in Latin letters,
\* a name of two or more tokens gives "Russian" exactly when its last token ends in
\* a Slavic suffix, is longer than 4 characters and is not excluded, and gives none
\* otherwise; a single-token name without a distinctive suffix gives none
C23_SurnameHeuristic ==
    (/\ Detected
     /\ arg.bio \in {Null, "", "I build things"}
     /\ arg.location \in {Null, "Berlin"}
     /\ arg.name # Null
     /\ \A c \in {"#", "$", "%", "&"} : ~HasChar(arg.name, c))
    => LET tokens == SplitWords(arg.name, 1, "")
           slavic(t) ==
               \E suf \in {"ov", "ev", "ova", "eva", "sky", "skiy", "ski", "skaya",
                           "skaia", "enko", "uk", "yuk", "chuk", "ovich", "evich",
                           "ich", "ych"} : EndsWith(t, suf)
           distinctive(t) ==
               \E suf \in {"enko", "ovich", "evich", "sky", "skiy", "ski"} : EndsWith(t, suf)
       IN /\ Len(tokens) >= 2
             => /\ out.language = "Russian"
                   <=> /\ slavic(LastToken(arg.name))
                       /\ Len(LastToken(arg.name)) > 4
                       /\ LastToken(arg.name) \notin {"laszkov", "nemkov"}
                /\ out.language \in {"Russian", Null}
                /\ Len(LastToken(arg.name)) <= 4 => out.language = Null
          /\ (Len(tokens) = 1 /\ ~distinctive(LastToken(arg.name)))
             => out.language = Null

\* "John Ev": the last token ends in a Slavic suffix and is too short
C23_ShortSurnameGivesNone ==
    /\ Detected
    /\ arg.bio = Null
    /\ arg.location = Null
    /\ arg.name = "John Ev"
    /\ out.language = Null

\* C27 as stated: whatever the interleaving of the searches' cache calls, the entry
\* a completed setCache wrote stays in the table for its 24 hours unless the key is
\* set again or invalidated; no lazy deletion removes it
C27_FreshEntryNeverRemoved ==
    \A k \in CacheKeys :
        (lastSet[k] # NoSet /\ now <= lastSet[k].at + 24)
        => /\ store[k] # NoRow
           /\ store[k].data = lastSet[k].value
           /\ store[k].expires_at = lastSet[k].at + 24

(***************************************************************************)
(* The cached lookups: findSOUserByGitHub (src/unnamed/part_002:178-223),  *)
(* findLinkedInProfile (src/src/lib/linkedin.ts:118-143) and               *)
(* findGitHubFromLinkedIn (src/src/lib/linkedin.ts:296-361), one call at a *)
(* time over the cache table                                               *)
(***************************************************************************)
\* the lookups of a run
MaxLookups == 2

cacheKey(type, parts) == type \o ":" \o Join(parts, ":")

\* the Stack Overflow users the name search can return
SOUsers ==
    [link |-> [display_name |-> "Alice Doe", website_url |-> "https://GitHub.com/Alice",
               reputation |-> 150],
     namesake |-> [display_name |-> "alice doe", website_url |-> Null, reputation |-> 5000],
     junior |-> [display_name |-> "Alice Doe", website_url |-> "https://example.com",
                 reputation |-> 120]]

\* sort: 'reputation', order: 'desc': the items of a search, at most two
SOResults ==
    {<<>>} \cup {<<u>> : u \in DOMAIN SOUsers}
        \cup {q \in (DOMAIN SOUsers) \X (DOMAIN SOUsers) :
                 SOUsers[q[2]].reputation < SOUsers[q[1]].reputation}

\* a search by name answers with items, or the request fails
SOSearchOutcomes == SOResults \cup {<<"throws">>}

\* a search by GitHub username answers with nobody or with the user's own profile,
\* or the request fails
SOUsernameSearchOutcomes == {<<>>, <<"link">>, <<"throws">>}

\* the JSON a search result is stored as, and the result read back from it
EncodeItems(items) == "items:" \o Join(items, ",")

DecodeItems(data) == CHOOSE items \in SOResults : EncodeItems(items) = data

\* the keys the lookups of the user alice ("Alice Doe") use
LookupKeys ==
    {cacheKey("so-github-match", <<"alice">>),
     cacheKey("so-user-search", <<"Alice Doe", "1">>),
     cacheKey("so-user-search", <<"alice", "1">>),
     cacheKey("linkedin-profile", <<"Alice Doe">>),
     cacheKey("linkedin-search", <<"Alice Doe", "3">>),
     cacheKey("linkedin-to-github", <<"https://linkedin.com/in/alicedoe">>)}

\* getCached between calls that do not overlap: the value, and the table after the
\* lazy delete of an expired row; healthy is FALSE when the store is not configured
\* or the request fails
getCachedOf(table, key, healthy) ==
    IF ~healthy \/ table[key] = NoRow THEN [value |-> Null, table |-> table]
    ELSE IF Expired(table[key], now)
         THEN [value |-> Null, table |-> [table EXCEPT ![key] = NoRow]]
    ELSE [value |-> table[key].data, table |-> table]

\* setCache: the table after the upsert
setCacheOf(table, key, value, healthy) ==
    IF healthy THEN [table EXCEPT ![key] = Row(value, now + CACHE_TTL_HOURS)] ELSE table

\* searchUsersByName(name, 1, pageSize), part_002:113-129; upstream is what soFetch
\* answers if it is called
searchUsersByName(table, name, upstream, healthy) ==
    LET key == cacheKey("so-user-search", <<name, "1">>)
        cached == getCachedOf(table, key, healthy)
    IN IF cached.value # Null
       THEN [items |-> DecodeItems(cached.value), threw |-> FALSE, requests |-> 0,
             table |-> cached.table]
       ELSE IF upstream = <<"throws">>
            THEN [items |-> <<>>, threw |-> TRUE, requests |-> 1, table |-> cached.table]
       ELSE [items |-> upstream, threw |-> FALSE, requests |-> 1,
             table |-> setCacheOf(cached.table, key, EncodeItems(upstream), healthy)]

\* user.website_url && user.website_url.toLowerCase().includes(`github.com/...`)
WebsiteLinksTo(user, githubUsername) ==
    /\ user.website_url # Null
    /\ Includes(toLowerCase(user.website_url), "github.com/" \o toLowerCase(githubUsername))

\* user.display_name.toLowerCase() === name.toLowerCase() && user.reputation > 100
CloseNameMatch(user, name) ==
    toLowerCase(user.display_name) = toLowerCase(name) /\ user.reputation > 100

\* the first item the loop of strategy 1 (lines 190-201) returns, Null if none
RECURSIVE FirstByNameSearch(_, _, _)
FirstByNameSearch(items, githubUsername, name) ==
    IF items = <<>> THEN Null
    ELSE IF WebsiteLinksTo(SOUsers[Head(items)], githubUsername) THEN Head(items)
    ELSE IF CloseNameMatch(SOUsers[Head(items)], name) THEN Head(items)
    ELSE FirstByNameSearch(Tail(items), githubUsername, name)

\* the first item the loop of strategy 2 (lines 210-215) returns, Null if none
RECURSIVE FirstByUsernameSearch(_, _)
FirstByUsernameSearch(items, githubUsername) ==
    IF items = <<>> THEN Null
    ELSE IF WebsiteLinksTo(SOUsers[Head(items)], githubUsername) THEN Head(items)
    ELSE FirstByUsernameSearch(Tail(items), githubUsername)

\* findSOUserByGitHub, lines 178-223: the user found (the key of SOUsers) or Null,
\* the items strategy 1 looked at, the upstream requests issued and the table left
findSOUserByGitHub(table, githubUsername, name, upstream1, upstream2, healthy) ==
    LET key == cacheKey("so-github-match", <<githubUsername>>)
        cached == getCachedOf(table, key, healthy)
        byName == IF Truthy(name)
                  THEN searchUsersByName(cached.table, name, upstream1, healthy)
                  ELSE [items |-> <<>>, threw |-> FALSE, requests |-> 0,
                        table |-> cached.table]
        first == FirstByNameSearch(byName.items, githubUsername, Text(name))
        byUsername == searchUsersByName(byName.table, githubUsername, upstream2, healthy)
        second == FirstByUsernameSearch(byUsername.items, githubUsername)
    IN IF cached.value # Null
       THEN [result |-> cached.value, seen |-> <<>>, requests |-> 0, table |-> cached.table]
       ELSE IF first # Null
            THEN [result |-> first, seen |-> byName.items, requests |-> byName.requests,
                  table |-> setCacheOf(byName.table, key, first, healthy)]
       ELSE IF second # Null
            THEN [result |-> second, seen |-> byName.items,
                  requests |-> byName.requests + byUsername.requests,
                  table |-> setCacheOf(byUsername.table, key, second, healthy)]
       ELSE [result |-> Null, seen |-> byName.items,
             requests |-> byName.requests + byUsername.requests,
             table |-> setCacheOf(byUsername.table, key, Null, healthy)]

\* what the spawned browser search comes to: a profile, no profile, or a failure
\* (exit code, no JSON): the last two resolve with profiles: []
LinkedInSearchOutcomes == {"profile", "none", "failed"}

\* searchLinkedIn(query, 3), linkedin.ts:19-115: only a result with profiles is cached
searchLinkedIn(table, query, upstream, healthy) ==
    LET key == cacheKey("linkedin-search", <<query, "3">>)
        cached == getCachedOf(table, key, healthy)
    IN IF cached.value # Null
       THEN [profiles |-> <<cached.value>>, requests |-> 0, table |-> cached.table]
       ELSE IF upstream = "profile"
            THEN [profiles |-> <<"https://linkedin.com/in/alicedoe">>, requests |-> 1,
                  table |-> setCacheOf(cached.table, key,
                                       "https://linkedin.com/in/alicedoe", healthy)]
       ELSE [profiles |-> <<>>, requests |-> 1, table |-> cached.table]

\* findLinkedInProfile(name), linkedin.ts:118-143, without company and location
findLinkedInProfile(table, name, upstream, healthy) ==
    LET key == cacheKey("linkedin-profile", <<name>>)
        cached == getCachedOf(table, key, healthy)
        search == searchLinkedIn(cached.table, name, upstream, healthy)
    IN IF cached.value # Null
       THEN [result |-> cached.value, seen |-> <<>>, requests |-> 0, table |-> cached.table]
       ELSE IF Len(search.profiles) > 0
            THEN [result |-> search.profiles[1], seen |-> <<>>, requests |-> search.requests,
                  table |-> setCacheOf(search.table, key, search.profiles[1], healthy)]
       ELSE [result |-> Null, seen |-> <<>>, requests |-> search.requests,
             table |-> setCacheOf(search.table, key, Null, healthy)]

\* what the spawned lookup comes to: a username, { github_username: null }, or a
\* failure (exit code, no JSON), which is not cached
GitHubLookupOutcomes == {"username", "none", "failed"}

\* findGitHubFromLinkedIn(profile), linkedin.ts:296-361
findGitHubFromLinkedIn(table, profileUrl, upstream, healthy) ==
    LET key == cacheKey("linkedin-to-github", <<profileUrl>>)
        cached == getCachedOf(table, key, healthy)
    IN IF cached.value # Null
       THEN [result |-> cached.value, seen |-> <<>>, requests |-> 0, table |-> cached.table]
       ELSE IF upstream = "username"
            THEN [result |-> "alice", seen |-> <<>>, requests |-> 1,
                  table |-> setCacheOf(cached.table, key, "alice", healthy)]
       ELSE IF upstream = "none"
            THEN [result |-> Null, seen |-> <<>>, requests |-> 1,
                  table |-> setCacheOf(cached.table, key, Null, healthy)]
       ELSE [result |-> Null, seen |-> <<>>, requests |-> 1, table |-> cached.table]

LookupInit ==
    /\ SearchIdle
    /\ LibIdle
    /\ configured \in BOOLEAN
    /\ store = [k \in LookupKeys |-> NoRow]
    /\ now = 0
    /\ inflight = [c \in Callers |-> NoGet]
    /\ lastSet = [k \in LookupKeys |-> NoSet]
    /\ ret = NoReturn

Lookups == IF out = NoCall THEN 0 ELSE out.count

\* the rows a call wrote, each with the hour it was written at
LastSetAfter(table) ==
    [k \in LookupKeys |->
        IF table[k] = NoRow THEN NoSet
        ELSE IF table[k] # store[k] THEN [value |-> table[k].data, at |-> now]
        ELSE lastSet[k]]

\* a call stored "no match" under the key in the last 24 hours
NegativeCached(key) ==
    lastSet[key] # NoSet /\ lastSet[key].value = Null /\ now <= lastSet[key].at + CACHE_TTL_HOURS

\* the call returns: what it was called with, what it hands back, and whether a
\* negative result was cached for its key when it started
LookupReturns(call, key, done, healthy) ==
    /\ arg' = call
    /\ out' = [fn |-> call.fn, key |-> key, result |-> done.result, seen |-> done.seen,
               requests |-> done.requests, healthy |-> healthy,
               negativeCached |-> NegativeCached(key), count |-> Lookups + 1]
    /\ store' = done.table
    /\ lastSet' = LastSetAfter(done.table)
    /\ UNCHANGED <<searchVars, configured, now, inflight, ret>>

FindSOUserByGitHub ==
    /\ Lookups < MaxLookups
    /\ \E name \in {Null, "Alice Doe"}, upstream1 \in SOSearchOutcomes,
          upstream2 \in SOUsernameSearchOutcomes, storeOk \in BOOLEAN :
          LookupReturns([fn |-> "findSOUserByGitHub", githubUsername |-> "alice",
                         name |-> name],
                        cacheKey("so-github-match", <<"alice">>),
                        findSOUserByGitHub(store, "alice", name, upstream1, upstream2,
                                           configured /\ storeOk),
                        configured /\ storeOk)

FindLinkedInProfile ==
    /\ Lookups < MaxLookups
    /\ \E upstream \in LinkedInSearchOutcomes, storeOk \in BOOLEAN :
          LookupReturns([fn |-> "findLinkedInProfile", name |-> "Alice Doe"],
                        cacheKey("linkedin-profile", <<"Alice Doe">>),
                        findLinkedInProfile(store, "Alice Doe", upstream,
                                            configured /\ storeOk),
                        configured /\ storeOk)

FindGitHubFromLinkedIn ==
    /\ Lookups < MaxLookups
    /\ \E upstream \in GitHubLookupOutcomes, storeOk \in BOOLEAN :
          LookupReturns([fn |-> "findGitHubFromLinkedIn",
                         profileUrl |-> "https://linkedin.com/in/alicedoe"],
                        cacheKey("linkedin-to-github", <<"https://linkedin.com/in/alicedoe">>),
                        findGitHubFromLinkedIn(store, "https://linkedin.com/in/alicedoe",
                                               upstream, configured /\ storeOk),
                        configured /\ storeOk)

LookupNext ==
    \/ FindSOUserByGitHub
    \/ FindLinkedInProfile
    \/ FindGitHubFromLinkedIn
    \/ Tick

LookupSpec == LookupInit /\ [][LookupNext]_vars

LookedUp(fn) == out # NoCall /\ out.fn = fn

\* C25 as stated: when the items of the name search hold a user whose website links
\* to github.com/alice and a user that matches by display name only, with a
\* reputation above 100, findSOUserByGitHub returns the user with the link
C25_ProfileLinkPreferred ==
    (/\ LookedUp("findSOUserByGitHub")
     /\ \E i \in 1..Len(out.seen) : out.seen[i] = "link"
     /\ \E i \in 1..Len(out.seen) : out.seen[i] \in {"namesake", "junior"})
    => out.result = "link"

\* C28 as stated: a lookup that starts within 24 hours of a "no match" cached under
\* its key, over a configured and healthy store, returns "no match" and issues no
\* upstream request
C28_NegativeResultServedFromCache ==
    (/\ out # NoCall
     /\ out.negativeCached
     /\ out.healthy)
    => /\ out.result = Null
       /\ out.requests = 0

\* C26: a pass of an enrichment loop (the only steps that enrich an identity or call
\* Stack Overflow or LinkedIn for it) handles one identity, later in the upstream
\* order than those handled before, adds at most one candidate, and is taken only
\* while fewer than maxResults (10 by default) candidates are accumulated
C26_SequentialUntilFull ==
    [][(index' = index + 1 \/ last' # last)
       => /\ Len(candidates) < (IF filters.maxResults = 0 THEN 10 ELSE filters.maxResults)
          /\ index' = index + 1
          /\ pc \in {"github", "linkedin"}
          /\ pc = "github" => (cursor' > cursor /\ last'.login = cursor')
          /\ Len(candidates') <= Len(candidates) + 1]_vars

\* a batch search that ended with maxResults candidates while the upstream result
\* had identities left and the loop had not run out of passes
C26_StoppedWithIdentitiesLeft ==
    /\ route = "batch"
    /\ pc = "done"
    /\ filters.maxResults > 0
    /\ Len(candidates) = filters.maxResults
    /\ cursor < NumProfiles
    /\ index < MaxUsers

\* C29 as stated: the stream of a streaming search is never closed twice, and is
\* closed once when the search is over
C29_StreamClosedOnce ==
    /\ closeCalls <= 1
    /\ (route = "stream" /\ pc = "done") => closeCalls = 1

====
